---- MODULE Spec2Model ----
(***************************************************************************)
(* A model of the PDF form utilities of builtin_skills/pdf/utils:          *)
(*   populate_interactive_form.py  (FormFiller)                            *)
(*   verify_form_layout.py         (LayoutValidator)                       *)
(*   apply_text_overlays.py        (CoordinateMapper, OverlayRenderer)     *)
(* Each script is a synchronous, single-threaded run; a run is modelled as *)
(* a state machine over the script's local variables, one action per loop  *)
(* iteration or straight-line block.  Pure functions are operators, and    *)
(* are exercised by the specification SpecPure, which draws a call from a  *)
(* bounded set of arguments and applies the function.                      *)
(*                                                                         *)
(* Python dicts are records (key in d  is  "key" \in DOMAIN d), lists are  *)
(* sequences, strings of the overlay content are sequences of code points. *)
(* Numbers produced by division are exact rationals <<num, den>>.          *)
(***************************************************************************)
EXTENDS Integers, Sequences, FiniteSets, TLC

VARIABLES
    \* ---- pure-function harness
    call,            \* the function applied and its arguments
    ret,             \* its result, [tag |-> "pending"] before the call
    \* ---- verify_form_layout.py: validate_form_layout
    field_entries,   \* config["field_entries"]
    messages,        \* the list returned
    found_error,
    i,               \* index into bounds_list of the outer loop (from 1)
    j,               \* index into bounds_list of the inner loop
    layout_pc,       \* "idle" | "start" | "loop" | "done"
    \* ---- populate_interactive_form.py: populate_form_fields
    form_data,       \* the fill instructions read from form_data_path
    elements,        \* parse_form_elements(reader)
    data_by_page,    \* dict page_num -> {element_id: fill_value}, in insertion order
    has_errors,
    fill_idx,        \* position of the loop the run is in (from 1)
    writer,          \* the PdfWriter: not created, or its field values
    output,          \* the file at output_pdf_path: not written, or its field values
    fill_pc,         \* "idle" | "group" | "check" | "update" | "done" | "exit1"
                     \* | "raised"
    \* ---- apply_text_overlays.py: apply_text_overlays
    overlay_entries, \* config["field_entries"]
    page_dimensions, \* config["page_dimensions"]
    pdf_pages,       \* number of pages of the input PDF (pdf_dims has 1..pdf_pages)
    fonts,           \* what the probe found at each path of CJK_FONT_PATHS
    has_cjk,
    cjk_font_name,   \* "" is None
    entries_by_page, \* dict page_num -> entries (their indices), in insertion order
    overlay_idx,     \* position in field_entries / entries_by_page (from 1)
    entry_idx,       \* position in the current page's entries (from 1)
    canvas,          \* what has been drawn on the current scratch canvas
    scratch,         \* the temporary files that exist
    annotations,     \* FreeText annotations added to the writer
    merged,          \* overlay pages merged into the writer's pages
    overlay_output,  \* the file at output_pdf_path
    overlay_error,   \* the exception that ended the run, "" if none
    overlay_pc,      \* "idle" | "start" | "register" | "annotate" | "group" | "page"
                     \* | "draw" | "save" | "done" | "exit1" | "raised"
    \* ---- parse_form_structure.py: parse_form_elements
    fields,          \* reader.get_fields(): None, or the dict id -> field, in order
    pages,           \* reader.pages: the /Annots list of each page
    parse_elements_by_id,    \* elements_by_id: the leaf elements, in insertion order
    potential_option_groups, \* ids of the /Btn fields that have /Kids
    option_groups_by_id,     \* the option groups, in insertion order
    field_idx,       \* position in fields.items() (from 1)
    page_idx,        \* enumerate(reader.pages) index (from 0)
    ann_idx,         \* position in the page's annotations (from 1)
    node,            \* "annotation" of build_complete_element_id: a dict or None
    parts,           \* "parts" of build_complete_element_id
    warnings,        \* the lines printed
    sorted_elements, \* the list returned
    parse_error,     \* the exception that ended the call, "" if none
    parse_pc         \* "idle" | "start" | "fields" | "annots" | "resolve"
                     \* | "publish" | "done" | "raised"

pureVars == <<call, ret>>
layoutVars == <<field_entries, messages, found_error, i, j, layout_pc>>
fillVars ==
    <<form_data, elements, data_by_page, has_errors, fill_idx, writer, output, fill_pc>>

overlayVars ==
    <<overlay_entries, page_dimensions, pdf_pages, fonts, has_cjk, cjk_font_name,
      entries_by_page, overlay_idx, entry_idx, canvas, scratch, annotations, merged,
      overlay_output, overlay_error, overlay_pc>>

parseVars ==
    <<fields, pages, parse_elements_by_id, potential_option_groups, option_groups_by_id,
      field_idx, page_idx, ann_idx, node, parts, warnings, sorted_elements,
      parse_error, parse_pc>>

vars ==
    <<call, ret, field_entries, messages, found_error, i, j, layout_pc,
      form_data, elements, data_by_page, has_errors, fill_idx, writer, output, fill_pc,
      overlay_entries, page_dimensions, pdf_pages, fonts, has_cjk, cjk_font_name,
      entries_by_page, overlay_idx, entry_idx, canvas, scratch, annotations, merged,
      overlay_output, overlay_error, overlay_pc,
      fields, pages, parse_elements_by_id, potential_option_groups, option_groups_by_id,
      field_idx, page_idx, ann_idx, node, parts, warnings, sorted_elements,
      parse_error, parse_pc>>

(***************************************************************************)
(* Generic helpers                                                         *)
(***************************************************************************)
Abs(n) == IF n < 0 THEN -n ELSE n

RECURSIVE Gcd(_, _)
Gcd(a, b) == IF b = 0 THEN a ELSE Gcd(b, a % b)

\* The rational n/d (d # 0) in lowest terms with a positive denominator.
Rat(n, d) ==
    LET g == Gcd(Abs(n), Abs(d))
        s == IF d < 0 THEN -1 ELSE 1
    IN  <<(s * n) \div g, (s * d) \div g>>

RatOfInt(n) == <<n, 1>>
RatMul(a, b) == Rat(a[1] * b[1], a[2] * b[2])
RatSub(a, b) == Rat(a[1] * b[2] - b[1] * a[2], a[2] * b[2])
RatLe(a, b) == a[1] * b[2] <= b[1] * a[2]

SeqToSet(s) == {s[k] : k \in 1..Len(s)}

(***************************************************************************)
(* populate_interactive_form.py: validate_element_value                    *)
(***************************************************************************)
None == [tag |-> "None"]
Pending == [tag |-> "pending"]
KeyError(key) == [tag |-> "KeyError", key |-> key]

\* [opt["option_value"] for opt in options]
OptionValues(options) == [k \in 1..Len(options) |-> options[k].option_value]
DisplayTexts(options) == [k \in 1..Len(options) |-> options[k].display_text]

\* Mutation: the dropdown domain is taken from the display texts.
validate_element_value_display(element_info, fill_value) ==
    LET element_type == element_info.element_type
        element_id == element_info.element_id
    IN  IF element_type = "toggle_box"
        THEN IF "on_value" \notin DOMAIN element_info THEN KeyError("on_value")
             ELSE IF "off_value" \notin DOMAIN element_info THEN KeyError("off_value")
             ELSE IF fill_value # element_info.on_value /\ fill_value # element_info.off_value
                  THEN [tag |-> "error", kind |-> "toggle_box", element_id |-> element_id,
                        fill_value |-> fill_value,
                        valid_values |-> <<element_info.on_value, element_info.off_value>>]
                  ELSE None
        ELSE IF element_type = "option_group"
        THEN IF "available_options" \notin DOMAIN element_info
             THEN KeyError("available_options")
             ELSE LET valid_values == OptionValues(element_info.available_options)
                  IN  IF fill_value \notin SeqToSet(valid_values)
                      THEN [tag |-> "error", kind |-> "option_group",
                            element_id |-> element_id, fill_value |-> fill_value,
                            valid_values |-> valid_values]
                      ELSE None
        ELSE IF element_type = "dropdown"
        THEN IF "menu_items" \notin DOMAIN element_info THEN KeyError("menu_items")
             ELSE LET menu_values == DisplayTexts(element_info.menu_items)
                  IN  IF fill_value \notin SeqToSet(menu_values)
                      THEN [tag |-> "error", kind |-> "dropdown",
                            element_id |-> element_id, fill_value |-> fill_value,
                            valid_values |-> menu_values]
                      ELSE None
        ELSE None

\* The result is None, a diagnostic (the f-string, kept as its parts: the
\* element kind, the id, the offending value and the valid values it lists),
\* or the KeyError raised by a subscript of a missing key.
validate_element_value(element_info, fill_value) ==
    LET element_type == element_info.element_type
        element_id == element_info.element_id
    IN  IF element_type = "toggle_box"
        THEN IF "on_value" \notin DOMAIN element_info THEN KeyError("on_value")
             ELSE IF "off_value" \notin DOMAIN element_info THEN KeyError("off_value")
             ELSE IF fill_value # element_info.on_value /\ fill_value # element_info.off_value
                  THEN [tag |-> "error", kind |-> "toggle_box", element_id |-> element_id,
                        fill_value |-> fill_value,
                        valid_values |-> <<element_info.on_value, element_info.off_value>>]
                  ELSE None
        ELSE IF element_type = "option_group"
        THEN IF "available_options" \notin DOMAIN element_info
             THEN KeyError("available_options")
             ELSE LET valid_values == OptionValues(element_info.available_options)
                  IN  IF fill_value \notin SeqToSet(valid_values)
                      THEN [tag |-> "error", kind |-> "option_group",
                            element_id |-> element_id, fill_value |-> fill_value,
                            valid_values |-> valid_values]
                      ELSE None
        ELSE IF element_type = "dropdown"
        THEN IF "menu_items" \notin DOMAIN element_info THEN KeyError("menu_items")
             ELSE LET menu_values == OptionValues(element_info.menu_items)
                  IN  IF fill_value \notin SeqToSet(menu_values)
                      THEN [tag |-> "error", kind |-> "dropdown",
                            element_id |-> element_id, fill_value |-> fill_value,
                            valid_values |-> menu_values]
                      ELSE None
        ELSE None

(***************************************************************************)
(* verify_form_layout.py: bounds_overlap                                   *)
(* A box is <<x0, y0, x1, y1>>; Python's b[0..3] are b[1..4] here.         *)
(***************************************************************************)
\* Mutation: the horizontal test lets touching boxes through.
bounds_overlap_touching(b1, b2) ==
    LET no_horizontal_overlap == b1[1] > b2[3] \/ b1[3] < b2[1]
        no_vertical_overlap == b1[2] >= b2[4] \/ b1[4] <= b2[2]
    IN  ~(no_horizontal_overlap \/ no_vertical_overlap)

bounds_overlap(b1, b2) ==
    LET no_horizontal_overlap == b1[1] >= b2[3] \/ b1[3] <= b2[1]
        no_vertical_overlap == b1[2] >= b2[4] \/ b1[4] <= b2[2]
    IN  ~(no_horizontal_overlap \/ no_vertical_overlap)

(***************************************************************************)
(* apply_text_overlays.py: convert_image_to_pdf_coords, has_cjk_characters *)
(***************************************************************************)
ZeroDivisionError == [tag |-> "ZeroDivisionError"]

\* Mutation: the two y values are returned in the image's order.
convert_image_to_pdf_coords_unflipped(bbox, img_width, img_height, pdf_width, pdf_height) ==
    IF img_width = 0 \/ img_height = 0 THEN ZeroDivisionError
    ELSE
    LET x_scale == Rat(pdf_width, img_width)
        y_scale == Rat(pdf_height, img_height)
        left == RatMul(RatOfInt(bbox[1]), x_scale)
        right == RatMul(RatOfInt(bbox[3]), x_scale)
        top == RatSub(RatOfInt(pdf_height), RatMul(RatOfInt(bbox[2]), y_scale))
        bottom == RatSub(RatOfInt(pdf_height), RatMul(RatOfInt(bbox[4]), y_scale))
    IN  [tag |-> "return", value |-> <<left, top, right, bottom>>]

convert_image_to_pdf_coords(bbox, img_width, img_height, pdf_width, pdf_height) ==
    IF img_width = 0 \/ img_height = 0 THEN ZeroDivisionError
    ELSE
    LET x_scale == Rat(pdf_width, img_width)
        y_scale == Rat(pdf_height, img_height)
        left == RatMul(RatOfInt(bbox[1]), x_scale)
        right == RatMul(RatOfInt(bbox[3]), x_scale)
        top == RatSub(RatOfInt(pdf_height), RatMul(RatOfInt(bbox[2]), y_scale))
        bottom == RatSub(RatOfInt(pdf_height), RatMul(RatOfInt(bbox[4]), y_scale))
    IN  [tag |-> "return", value |-> <<left, bottom, right, top>>]

(***************************************************************************)
(* The same function in the arithmetic Python runs it in: "/", "*" and "-" *)
(* on floats are IEEE 754 binary64 operations, each rounded to nearest,    *)
(* ties to even. A natural number is the sequence of its bits, the most    *)
(* significant first; a float is [neg, m, e], the value (-1)^neg * m * 2^e *)
(* with m of MantissaBits bits (the first one 1), or << >> for zero.       *)
(***************************************************************************)
MantissaBits == 53

Zeros(n) == [k \in 1..n |-> 0]

RECURSIVE NatBits(_)
NatBits(n) == IF n = 0 THEN << >> ELSE Append(NatBits(n \div 2), n % 2)

\* 2^t modulo d, by repeated squaring.
RECURSIVE Pow2Mod(_, _)
Pow2Mod(t, d) ==
    IF t = 0 THEN 1 % d
    ELSE LET root == Pow2Mod(t \div 2, d)
         IN  (root * root * (IF t % 2 = 1 THEN 2 ELSE 1)) % d

\* x + y for two numbers of the same length, one bit longer than they are. A
\* position receives a carry when a position below it generates one and every
\* position in between passes it on.
BitsAdd(x, y) ==
    LET carry(k) == \E g \in (k + 1)..Len(x) :
                        /\ x[g] + y[g] = 2
                        /\ \A p \in (k + 1)..(g - 1) : x[p] + y[p] = 1
    IN  [k \in 1..(Len(x) + 1) |->
            IF k = 1 THEN (IF carry(0) THEN 1 ELSE 0)
            ELSE (x[k - 1] + y[k - 1] + (IF carry(k - 1) THEN 1 ELSE 0)) % 2]

\* x < y for two numbers of the same length.
BitsLess(x, y) ==
    \E k \in 1..Len(x) : x[k] < y[k] /\ \A m \in 1..(k - 1) : x[m] = y[m]

\* x - y for two numbers of the same length, x >= y. A position lends to the
\* one below it when what is below it in x is less than what is below it in y.
BitsSub(x, y) ==
    LET borrow(k) == BitsLess(SubSeq(x, k + 1, Len(x)), SubSeq(y, k + 1, Len(y)))
    IN  [k \in 1..Len(x) |-> (x[k] - y[k] - (IF borrow(k) THEN 1 ELSE 0) + 2) % 2]

\* bits * b for a small number b: b's bits select the shifted copies of bits
\* that are added up.
RECURSIVE BitsMul(_, _)
BitsMul(bits, b) ==
    IF b = 0 THEN << >>
    ELSE LET doubled == BitsMul(bits, b \div 2) \o <<0>>
             term == IF b % 2 = 1 THEN bits ELSE Zeros(Len(bits))
             width == IF Len(doubled) > Len(term) THEN Len(doubled) ELSE Len(term)
         IN  BitsAdd(Zeros(width - Len(doubled)) \o doubled,
                     Zeros(width - Len(term)) \o term)

\* The float nearest to (bits + f) * 2^e, where 0 <= f < 1 and f # 0 iff
\* sticky: the mantissa is cut to MantissaBits bits and rounded to nearest,
\* ties to even.
FlRound(neg, bits, sticky, e) ==
    IF \A k \in 1..Len(bits) : bits[k] = 0
    THEN [neg |-> FALSE, m |-> << >>, e |-> 0]
    ELSE LET first == CHOOSE k \in 1..Len(bits) :
                          bits[k] = 1 /\ \A m \in 1..(k - 1) : bits[m] = 0
             n == SubSeq(bits, first, Len(bits))
             short == MantissaBits - Len(n)
         IN  IF short >= 0
             THEN [neg |-> neg, m |-> n \o Zeros(short), e |-> e - short]
             ELSE LET kept == SubSeq(n, 1, MantissaBits)
                      half == n[MantissaBits + 1] = 1
                      more == sticky \/ \E k \in (MantissaBits + 2)..Len(n) : n[k] = 1
                      up == half /\ (more \/ kept[MantissaBits] = 1)
                      next == BitsAdd(kept, Zeros(MantissaBits - 1) \o <<1>>)
                  IN  IF ~up THEN [neg |-> neg, m |-> kept, e |-> e - short]
                      ELSE IF next[1] = 0
                      THEN [neg |-> neg, m |-> Tail(next), e |-> e - short]
                      ELSE [neg |-> neg, m |-> SubSeq(next, 1, MantissaBits),
                            e |-> e - short + 1]

\* float(k) for a natural number k.
FlOfInt(k) == FlRound(FALSE, NatBits(k), FALSE, 0)

\* a / b for natural numbers a and b, b > 0: the binary expansion of the
\* quotient to 2 * MantissaBits fraction bits; what is left of it is sticky.
FlDiv(a, b) ==
    LET left(t) == ((a % b) * Pow2Mod(t, b)) % b
        fraction == [t \in 1..(2 * MantissaBits) |-> (2 * left(t - 1)) \div b]
    IN  FlRound(FALSE, NatBits(a \div b) \o fraction, left(2 * MantissaBits) # 0,
                -(2 * MantissaBits))

\* k * f for a natural number k and a float f.
FlMul(k, f) == FlRound(f.neg, BitsMul(f.m, k), FALSE, f.e)

\* k - f for a natural number k and a float f, 0 <= f < 2^MantissaBits.
FlSub(k, f) ==
    LET x == NatBits(k) \o Zeros(-f.e)
        width == IF Len(x) > Len(f.m) THEN Len(x) ELSE Len(f.m)
        px == Zeros(width - Len(x)) \o x
        py == Zeros(width - Len(f.m)) \o f.m
    IN  IF BitsLess(px, py)
        THEN FlRound(TRUE, BitsSub(py, px), FALSE, f.e)
        ELSE FlRound(FALSE, BitsSub(px, py), FALSE, f.e)

\* Mutation: the tuple is returned as (left, top, right, bottom).
convert_image_to_pdf_coords_binary64_swapped(bbox, img_width, img_height, pdf_width, pdf_height) ==
    IF img_width = 0 \/ img_height = 0 THEN ZeroDivisionError
    ELSE
    LET x_scale == FlDiv(pdf_width, img_width)
        y_scale == FlDiv(pdf_height, img_height)
        left == FlMul(bbox[1], x_scale)
        right == FlMul(bbox[3], x_scale)
        top == FlSub(pdf_height, FlMul(bbox[2], y_scale))
        bottom == FlSub(pdf_height, FlMul(bbox[4], y_scale))
    IN  [tag |-> "return", value |-> <<left, top, right, bottom>>]

\* convert_image_to_pdf_coords on natural numbers, in float arithmetic.
convert_image_to_pdf_coords_binary64(bbox, img_width, img_height, pdf_width, pdf_height) ==
    IF img_width = 0 \/ img_height = 0 THEN ZeroDivisionError
    ELSE
    LET x_scale == FlDiv(pdf_width, img_width)
        y_scale == FlDiv(pdf_height, img_height)
        left == FlMul(bbox[1], x_scale)
        right == FlMul(bbox[3], x_scale)
        top == FlSub(pdf_height, FlMul(bbox[2], y_scale))
        bottom == FlSub(pdf_height, FlMul(bbox[4], y_scale))
    IN  [tag |-> "return", value |-> <<left, bottom, right, top>>]

\* text is the sequence of the string's code points (ord(char)).
has_cjk_characters(text) ==
    \E k \in 1..Len(text) :
        LET code == text[k]
        IN  \/ (19968 <= code /\ code <= 40959)     \* 0x4E00 - 0x9FFF
            \/ (13312 <= code /\ code <= 19903)     \* 0x3400 - 0x4DBF
            \/ (12288 <= code /\ code <= 12351)     \* 0x3000 - 0x303F
            \/ (65280 <= code /\ code <= 65519)     \* 0xFF00 - 0xFFEF
            \/ (12352 <= code /\ code <= 12447)     \* 0x3040 - 0x309F
            \/ (12448 <= code /\ code <= 12543)     \* 0x30A0 - 0x30FF
            \/ (44032 <= code /\ code <= 55215)     \* 0xAC00 - 0xD7AF

(***************************************************************************)
(* SpecPure: one call of a pure function on arguments from bounded sets    *)
(***************************************************************************)
NoBounds == <<0, 0, 0, 0>>

\* Elements as parse_form_elements publishes them (page_num and bounds are
\* not read by validate_element_value).
ElemText == [element_id |-> "t", element_type |-> "text_input", page_num |-> 1]
ElemToggle ==
    [element_id |-> "c", element_type |-> "toggle_box", page_num |-> 1,
     on_value |-> "/Yes", off_value |-> "/Off"]
ElemTogglePositional ==
    [element_id |-> "p", element_type |-> "toggle_box", page_num |-> 1,
     on_value |-> "/1", off_value |-> "/2"]
ElemToggleNoStates ==
    [element_id |-> "k", element_type |-> "toggle_box", page_num |-> 1]
ElemGroup ==
    [element_id |-> "r", element_type |-> "option_group", page_num |-> 2,
     available_options |-> << [option_value |-> "/a", bounds |-> NoBounds],
                              [option_value |-> "/b", bounds |-> NoBounds] >>]
ElemDropdown ==
    [element_id |-> "d", element_type |-> "dropdown", page_num |-> 2,
     menu_items |-> << [option_value |-> "a", display_text |-> "A"],
                       [option_value |-> "b", display_text |-> "B"] >>]
ElemDropdownEmpty ==
    [element_id |-> "e", element_type |-> "dropdown", page_num |-> 2,
     menu_items |-> << >>]
ElemUnknown == [element_id |-> "u", element_type |-> "unknown (/Sig)", page_num |-> 1]

ValidateElements ==
    {ElemText, ElemToggle, ElemTogglePositional, ElemToggleNoStates, ElemGroup,
     ElemDropdown, ElemDropdownEmpty, ElemUnknown}
FillValues == {"a", "b", "c", "A", "/a", "/Yes", "/Off", "/1", ""}

OverlapCoords == {0, 9, 10, 20}
OverlapBoxes == OverlapCoords \X OverlapCoords \X OverlapCoords \X OverlapCoords

ImageCoords == {0, 50, 100}
ImageBoxes == ImageCoords \X ImageCoords \X ImageCoords \X ImageCoords
ImageDims == {0, 3, 100, 200}
PageDims == {200, 400, 595}

\* Code points at and around the limits of the seven ranges.
CodePoints ==
    {65, 12287, 12288, 12351, 12352, 12447, 12448, 12543, 12544, 13311, 13312,
     19903, 19904, 19967, 19968, 20013, 40959, 40960, 44031, 44032, 55215,
     55216, 65279, 65280, 65519, 65520}
Texts == {<< >>} \cup {<<a>> : a \in CodePoints}
                 \cup {<<a, b>> : a \in {65, 20013, 12288}, b \in CodePoints}

ValidateCalls ==
    [fn : {"validate_element_value"}, element_info : ValidateElements,
     fill_value : FillValues]
OverlapCalls == [fn : {"bounds_overlap"}, b1 : OverlapBoxes, b2 : OverlapBoxes]
ConvertCalls ==
    [fn : {"convert_image_to_pdf_coords"}, bbox : ImageBoxes,
     img_width : ImageDims, img_height : ImageDims,
     pdf_width : PageDims, pdf_height : PageDims]
CjkCalls == [fn : {"has_cjk_characters"}, text : Texts]

\* Calls evaluated in float arithmetic: page images of 35 x 23 to 37 x 37
\* pixels on Letter and A4 pages, with the full image box, boxes inside it, an
\* empty box and a box whose corners are exchanged.
Binary64Boxes(w, h) ==
    {<<0, 0, w, h>>, <<0, 7, 7, h>>, <<7, 0, w, 7>>, <<7, 7, 7, 7>>, <<w, h, 0, 0>>}
Binary64Calls ==
    {[fn |-> "convert_image_to_pdf_coords_binary64", bbox |-> b,
      img_width |-> d[1], img_height |-> d[2],
      pdf_width |-> p[1], pdf_height |-> p[2]] :
        b \in UNION {Binary64Boxes(w, h) : w \in {35, 37}, h \in {23, 37}},
        d \in {35, 37} \X {23, 37},
        p \in {<<612, 792>>, <<595, 842>>}}

PureIdle == call = [fn |-> "none"] /\ ret = Pending

LayoutIdle ==
    /\ field_entries = << >> /\ messages = << >> /\ found_error = FALSE
    /\ i = 0 /\ j = 0 /\ layout_pc = "idle"

FillIdle ==
    /\ form_data = << >> /\ elements = << >> /\ data_by_page = << >>
    /\ has_errors = FALSE /\ fill_idx = 0
    /\ writer = [created |-> FALSE] /\ output = [written |-> FALSE]
    /\ fill_pc = "idle"

OverlayIdle ==
    /\ overlay_entries = << >> /\ page_dimensions = << >> /\ pdf_pages = 0
    /\ fonts = << >> /\ has_cjk = FALSE /\ cjk_font_name = ""
    /\ entries_by_page = << >> /\ overlay_idx = 0 /\ entry_idx = 0
    /\ canvas = << >> /\ scratch = {} /\ annotations = << >> /\ merged = << >>
    /\ overlay_output = [written |-> FALSE] /\ overlay_error = ""
    /\ overlay_pc = "idle"

ParseIdle ==
    /\ fields = None /\ pages = << >>
    /\ parse_elements_by_id = << >> /\ potential_option_groups = {}
    /\ option_groups_by_id = << >>
    /\ field_idx = 0 /\ page_idx = 0 /\ ann_idx = 0
    /\ node = None /\ parts = << >> /\ warnings = << >>
    /\ sorted_elements = << >> /\ parse_error = "" /\ parse_pc = "idle"

PureInit ==
    /\ call \in ValidateCalls \cup OverlapCalls \cup ConvertCalls \cup CjkCalls
                \cup Binary64Calls
    /\ ret = Pending
    /\ LayoutIdle /\ FillIdle /\ OverlayIdle /\ ParseIdle

CallValidate ==
    /\ call.fn = "validate_element_value" /\ ret = Pending
    /\ ret' = validate_element_value(call.element_info, call.fill_value)
    /\ UNCHANGED <<call, layoutVars, fillVars, overlayVars, parseVars>>

CallOverlap ==
    /\ call.fn = "bounds_overlap" /\ ret = Pending
    /\ ret' = [tag |-> "return", value |-> bounds_overlap(call.b1, call.b2)]
    /\ UNCHANGED <<call, layoutVars, fillVars, overlayVars, parseVars>>

CallConvert ==
    /\ call.fn = "convert_image_to_pdf_coords" /\ ret = Pending
    /\ ret' = convert_image_to_pdf_coords(call.bbox, call.img_width, call.img_height,
                                          call.pdf_width, call.pdf_height)
    /\ UNCHANGED <<call, layoutVars, fillVars, overlayVars, parseVars>>

CallHasCjk ==
    /\ call.fn = "has_cjk_characters" /\ ret = Pending
    /\ ret' = [tag |-> "return", value |-> has_cjk_characters(call.text)]
    /\ UNCHANGED <<call, layoutVars, fillVars, overlayVars, parseVars>>

CallConvertBinary64 ==
    /\ call.fn = "convert_image_to_pdf_coords_binary64" /\ ret = Pending
    /\ ret' = convert_image_to_pdf_coords_binary64(call.bbox, call.img_width,
                   call.img_height, call.pdf_width, call.pdf_height)
    /\ UNCHANGED <<call, layoutVars, fillVars, overlayVars, parseVars>>

PureNext ==
    CallValidate \/ CallOverlap \/ CallConvert \/ CallHasCjk \/ CallConvertBinary64

SpecPure == PureInit /\ [][PureNext]_vars

(***************************************************************************)
(* verify_form_layout.py: validate_form_layout                             *)
(***************************************************************************)
DiagnosticCap == 20
DefaultTextSize == 14

\* bounds_list: for each entry its label box, then its entry box.  The field
\* entry is the entry's index in field_entries (`bi.entry is bj.entry` compares
\* identities, not contents).
bounds_list(entries) ==
    [k \in 1..(2 * Len(entries)) |->
        LET e == (k + 1) \div 2
        IN  IF k % 2 = 1
            THEN [bounds |-> entries[e].label_bounds, bounds_type |-> "label", entry |-> e]
            ELSE [bounds |-> entries[e].entry_bounds, bounds_type |-> "entry", entry |-> e]]

\* The messages are kept as the parts their f-strings print; `at` is not part of
\* the text: it records which boxes (indices into bounds_list) produced it.
MsgRead(entries) == [kind |-> "read", count |-> Len(entries)]
MsgOverlapSelf(entries, bi, bj, at) ==
    [kind |-> "overlap_self", description |-> entries[bi.entry].description,
     bounds1 |-> bi.bounds, bounds2 |-> bj.bounds, at |-> at]
MsgOverlap(entries, bi, bj, at) ==
    [kind |-> "overlap",
     description1 |-> entries[bi.entry].description, type1 |-> bi.bounds_type,
     bounds1 |-> bi.bounds,
     description2 |-> entries[bj.entry].description, type2 |-> bj.bounds_type,
     bounds2 |-> bj.bounds, at |-> at]
MsgHeight(entries, bi, entry_height, text_size, at) ==
    [kind |-> "height", description |-> entries[bi.entry].description,
     entry_height |-> entry_height, text_size |-> text_size, at |-> at]
MsgAbort == [kind |-> "abort"]
MsgSuccess == [kind |-> "success"]

\* Mutation: the page numbers of the two boxes are not compared.
PairOverlaps_anypage(entries, bi, bj) == bounds_overlap(bi.bounds, bj.bounds)

\* The condition of the inner loop's if.
PairOverlaps(entries, bi, bj) ==
    /\ entries[bi.entry].page_num = entries[bj.entry].page_num
    /\ bounds_overlap(bi.bounds, bj.bounds)

\* Mutation: the cap is tested with > instead of >=.
CapReached_late(msgs) == Len(msgs) > DiagnosticCap

CapReached(msgs) == Len(msgs) >= DiagnosticCap

\* text_content.get("text_size", 14)
TextSizeOf(text_content) ==
    IF "text_size" \in DOMAIN text_content THEN text_content.text_size
    ELSE DefaultTextSize

\* Mutation: a box exactly as high as the text is reported.
HeightTooSmall_inclusive(entry_height, text_size) == entry_height <= text_size

HeightTooSmall(entry_height, text_size) == entry_height < text_size

\* Mutation: the success message is appended whatever was found.
FinalMessages_always(msgs, found) == Append(msgs, MsgSuccess)

\* The tail of the function: the success message when nothing was found.
FinalMessages(msgs, found) == IF ~found THEN Append(msgs, MsgSuccess) ELSE msgs

\* json.load, the count line, bounds_list, found_error = False.
ReadConfig ==
    /\ layout_pc = "start"
    /\ messages' = <<MsgRead(field_entries)>>
    /\ found_error' = FALSE
    /\ i' = 1 /\ j' = 2
    /\ layout_pc' = "loop"
    /\ UNCHANGED <<field_entries, pureVars, fillVars, overlayVars, parseVars>>

\* One iteration of the inner loop: the pair (bounds_list[i], bounds_list[j]).
CheckPair ==
    /\ layout_pc = "loop"
    /\ i <= 2 * Len(field_entries) /\ j <= 2 * Len(field_entries)
    /\ LET bl == bounds_list(field_entries)
           bi == bl[i]
           bj == bl[j]
           msg == IF bi.entry = bj.entry
                  THEN MsgOverlapSelf(field_entries, bi, bj, <<i, j>>)
                  ELSE MsgOverlap(field_entries, bi, bj, <<i, j>>)
       IN  IF PairOverlaps(field_entries, bi, bj)
           THEN /\ found_error' = TRUE
                /\ IF CapReached(Append(messages, msg))
                   THEN /\ messages' = Append(Append(messages, msg), MsgAbort)
                        /\ layout_pc' = "done"
                        /\ UNCHANGED <<i, j>>
                   ELSE /\ messages' = Append(messages, msg)
                        /\ j' = j + 1
                        /\ UNCHANGED <<i, layout_pc>>
           ELSE /\ j' = j + 1
                /\ UNCHANGED <<messages, found_error, i, layout_pc>>
    /\ UNCHANGED <<field_entries, pureVars, fillVars, overlayVars, parseVars>>

\* The rest of the outer loop's body once the inner loop is exhausted: the
\* height check of an entry box that carries text_content, then the next i.
CheckHeight ==
    /\ layout_pc = "loop"
    /\ i <= 2 * Len(field_entries) /\ j > 2 * Len(field_entries)
    /\ LET bi == bounds_list(field_entries)[i]
           entry == field_entries[bi.entry]
       IN  IF bi.bounds_type = "entry" /\ "text_content" \in DOMAIN entry
           THEN LET text_size == TextSizeOf(entry.text_content)
                    entry_height == bi.bounds[4] - bi.bounds[2]
                    msg == MsgHeight(field_entries, bi, entry_height, text_size, <<i>>)
                IN  IF HeightTooSmall(entry_height, text_size)
                    THEN /\ found_error' = TRUE
                         /\ IF CapReached(Append(messages, msg))
                            THEN /\ messages' = Append(Append(messages, msg), MsgAbort)
                                 /\ layout_pc' = "done"
                                 /\ UNCHANGED <<i, j>>
                            ELSE /\ messages' = Append(messages, msg)
                                 /\ i' = i + 1 /\ j' = i + 2
                                 /\ UNCHANGED layout_pc
                    ELSE /\ i' = i + 1 /\ j' = i + 2
                         /\ UNCHANGED <<messages, found_error, layout_pc>>
           ELSE /\ i' = i + 1 /\ j' = i + 2
                /\ UNCHANGED <<messages, found_error, layout_pc>>
    /\ UNCHANGED <<field_entries, pureVars, fillVars, overlayVars, parseVars>>

\* Both loops are exhausted: the success message, and the return.
FinishLayout ==
    /\ layout_pc = "loop"
    /\ i > 2 * Len(field_entries)
    /\ messages' = FinalMessages(messages, found_error)
    /\ layout_pc' = "done"
    /\ UNCHANGED <<field_entries, found_error, i, j, pureVars, fillVars, overlayVars, parseVars>>

\* Field entries of form_config.json.
EntryOverlapping ==
    [description |-> "Field", page_num |-> 1,
     label_bounds |-> <<10, 10, 50, 30>>, entry_bounds |-> <<20, 15, 60, 35>>]
EntryTouching ==
    [description |-> "Name", page_num |-> 1,
     label_bounds |-> <<0, 0, 10, 10>>, entry_bounds |-> <<10, 0, 20, 10>>,
     text_content |-> [content |-> "x", text_size |-> 10]]
EntryShort ==
    [description |-> "Email", page_num |-> 2,
     label_bounds |-> <<0, 0, 10, 10>>, entry_bounds |-> <<9, 0, 20, 9>>,
     text_content |-> [content |-> "x", text_size |-> 10]]
EntryDefault13 ==
    [description |-> "Phone", page_num |-> 1,
     label_bounds |-> <<100, 100, 110, 110>>, entry_bounds |-> <<120, 100, 130, 113>>,
     text_content |-> [content |-> "x"]]
EntryDefault14 ==
    [description |-> "City", page_num |-> 2,
     label_bounds |-> <<100, 100, 110, 110>>, entry_bounds |-> <<120, 100, 130, 114>>,
     text_content |-> [content |-> "x"]]
EntryNoText ==
    [description |-> "Zip", page_num |-> 2,
     label_bounds |-> <<200, 0, 210, 5>>, entry_bounds |-> <<220, 0, 230, 5>>]

LayoutEntries ==
    {EntryOverlapping, EntryTouching, EntryShort, EntryDefault13, EntryDefault14,
     EntryNoText}

MaxFieldEntries == 4

\* The 25 mutually overlapping fields of test_multiple_errors_limit.
ManyOverlapping == [k \in 1..25 |-> EntryOverlapping]

LayoutInit ==
    /\ field_entries \in
           (UNION {[1..n -> LayoutEntries] : n \in 0..MaxFieldEntries})
               \cup {ManyOverlapping}
    /\ messages = << >> /\ found_error = FALSE
    /\ i = 0 /\ j = 0 /\ layout_pc = "start"
    /\ PureIdle /\ FillIdle /\ OverlayIdle /\ ParseIdle

LayoutNext == ReadConfig \/ CheckPair \/ CheckHeight \/ FinishLayout

SpecLayout == LayoutInit /\ [][LayoutNext]_vars

(***************************************************************************)
(* populate_interactive_form.py: populate_form_fields                      *)
(***************************************************************************)
\* {e["element_id"]: e for e in elements}: a later element replaces an earlier
\* one of the same id.
elements_by_id(elems) ==
    [id \in {elems[k].element_id : k \in 1..Len(elems)} |->
        LET last == CHOOSE k \in 1..Len(elems) :
                        /\ elems[k].element_id = id
                        /\ \A m \in 1..Len(elems) : elems[m].element_id = id => m <= k
        IN  elems[last]]

\* d[key] = value on a dict kept as a function.
DictPut(d, key, value) ==
    [x \in DOMAIN d \cup {key} |-> IF x = key THEN value ELSE d[x]]

EmptyDict == [x \in {} |-> ""]

\* data_by_page[page_num][element_id] = fill_value; a new page is appended.
GroupPut(by_page, page_num, element_id, fill_value) ==
    IF \E k \in 1..Len(by_page) : by_page[k].page_num = page_num
    THEN [k \in 1..Len(by_page) |->
             IF by_page[k].page_num = page_num
             THEN [by_page[k] EXCEPT !.field_values = DictPut(@, element_id, fill_value)]
             ELSE by_page[k]]
    ELSE Append(by_page, [page_num |-> page_num,
                          field_values |-> DictPut(EmptyDict, element_id, fill_value)])

\* Mutation: the page number of the instruction is not compared.
EntryVerdict_nopage(by_id, entry) ==
    IF entry.element_id \notin DOMAIN by_id THEN "error"
    ELSE IF "fill_value" \in DOMAIN entry
         THEN LET err == validate_element_value(by_id[entry.element_id], entry.fill_value)
              IN  IF err.tag = "KeyError" THEN "raise"
                  ELSE IF err.tag = "error" THEN "error" ELSE "ok"
         ELSE "ok"

\* The body of the checking loop for one instruction: "error" when it sets
\* has_errors, "raise" when validate_element_value raises, "ok" otherwise.
EntryVerdict(by_id, entry) ==
    IF entry.element_id \notin DOMAIN by_id THEN "error"
    ELSE IF entry.page_num # by_id[entry.element_id].page_num THEN "error"
    ELSE IF "fill_value" \in DOMAIN entry
         THEN LET err == validate_element_value(by_id[entry.element_id], entry.fill_value)
              IN  IF err.tag = "KeyError" THEN "raise"
                  ELSE IF err.tag = "error" THEN "error" ELSE "ok"
         ELSE "ok"

\* The value every field of the input document holds before the run.
Unfilled == "<unfilled>"

\* writer.update_page_form_field_values(writer.pages[page_num - 1], field_values):
\* the fields of that page named in field_values take their values.
UpdatePageValues(values, by_id, page_num, field_values) ==
    [id \in DOMAIN values |->
        IF id \in DOMAIN field_values /\ by_id[id].page_num = page_num
        THEN field_values[id] ELSE values[id]]

\* One iteration of the grouping loop.
GroupEntry ==
    /\ fill_pc = "group" /\ fill_idx <= Len(form_data)
    /\ LET entry == form_data[fill_idx]
       IN  data_by_page' =
               IF "fill_value" \in DOMAIN entry
               THEN GroupPut(data_by_page, entry.page_num, entry.element_id,
                             entry.fill_value)
               ELSE data_by_page
    /\ fill_idx' = fill_idx + 1
    /\ UNCHANGED <<form_data, elements, has_errors, writer, output, fill_pc>>
    /\ UNCHANGED <<pureVars, layoutVars, overlayVars, parseVars>>

\* reader = PdfReader(...); has_errors = False; the model is extracted.
ParseModel ==
    /\ fill_pc = "group" /\ fill_idx > Len(form_data)
    /\ has_errors' = FALSE
    /\ fill_idx' = 1
    /\ fill_pc' = "check"
    /\ UNCHANGED <<form_data, elements, data_by_page, writer, output>>
    /\ UNCHANGED <<pureVars, layoutVars, overlayVars, parseVars>>

\* One iteration of the checking loop.
CheckEntry ==
    /\ fill_pc = "check" /\ fill_idx <= Len(form_data)
    /\ LET verdict == EntryVerdict(elements_by_id(elements), form_data[fill_idx])
       IN  IF verdict = "raise"
           THEN fill_pc' = "raised" /\ UNCHANGED <<has_errors, fill_idx>>
           ELSE /\ has_errors' = (has_errors \/ verdict = "error")
                /\ fill_idx' = fill_idx + 1
                /\ UNCHANGED fill_pc
    /\ UNCHANGED <<form_data, elements, data_by_page, writer, output>>
    /\ UNCHANGED <<pureVars, layoutVars, overlayVars, parseVars>>

\* if has_errors: sys.exit(1)
ExitOnErrors ==
    /\ fill_pc = "check" /\ fill_idx > Len(form_data)
    /\ has_errors
    /\ fill_pc' = "exit1"
    /\ UNCHANGED <<form_data, elements, data_by_page, has_errors, fill_idx, writer, output>>
    /\ UNCHANGED <<pureVars, layoutVars, overlayVars, parseVars>>

\* writer = PdfWriter(clone_from=reader)
CreateWriter ==
    /\ fill_pc = "check" /\ fill_idx > Len(form_data)
    /\ ~has_errors
    /\ writer' = [created |-> TRUE,
                  values |-> [id \in DOMAIN elements_by_id(elements) |-> Unfilled],
                  need_appearances |-> FALSE]
    /\ fill_idx' = 1
    /\ fill_pc' = "update"
    /\ UNCHANGED <<form_data, elements, data_by_page, has_errors, output>>
    /\ UNCHANGED <<pureVars, layoutVars, overlayVars, parseVars>>

\* One iteration of the loop over data_by_page.items().
UpdatePage ==
    /\ fill_pc = "update" /\ fill_idx <= Len(data_by_page)
    /\ writer' = [writer EXCEPT !.values =
                      UpdatePageValues(@, elements_by_id(elements),
                                       data_by_page[fill_idx].page_num,
                                       data_by_page[fill_idx].field_values)]
    /\ fill_idx' = fill_idx + 1
    /\ UNCHANGED <<form_data, elements, data_by_page, has_errors, output, fill_pc>>
    /\ UNCHANGED <<pureVars, layoutVars, overlayVars, parseVars>>

\* writer.set_need_appearances_writer(True); writer.write(f)
WriteOutput ==
    /\ fill_pc = "update" /\ fill_idx > Len(data_by_page)
    /\ writer' = [writer EXCEPT !.need_appearances = TRUE]
    /\ output' = [written |-> TRUE, values |-> writer.values, need_appearances |-> TRUE]
    /\ fill_pc' = "done"
    /\ UNCHANGED <<form_data, elements, data_by_page, has_errors, fill_idx>>
    /\ UNCHANGED <<pureVars, layoutVars, overlayVars, parseVars>>

\* Fill instructions of form_data.json.
Instr(id, page, value) == [element_id |-> id, page_num |-> page, fill_value |-> value]
InstrNoValue(id, page) == [element_id |-> id, page_num |-> page]

FillInstructions ==
    {Instr("t", 1, "a"), Instr("t", 2, "a"), InstrNoValue("t", 1),
     Instr("c", 1, "/Off"), Instr("c", 1, "a"),
     Instr("d", 2, "a"), Instr("d", 2, "c"), Instr("d", 1, "a"),
     Instr("r", 2, "/a"),
     Instr("zz", 1, "a"), InstrNoValue("zz", 1),
     Instr("k", 1, "a")}

\* The models extracted from the input documents.
DocumentModels ==
    { << >>,
      <<ElemText, ElemToggle, ElemToggleNoStates, ElemGroup, ElemDropdown>> }

MaxInstructions == 3

FillInit ==
    /\ form_data \in UNION {[1..n -> FillInstructions] : n \in 0..MaxInstructions}
    /\ elements \in DocumentModels
    /\ data_by_page = << >>
    /\ has_errors = FALSE /\ fill_idx = 1
    /\ writer = [created |-> FALSE] /\ output = [written |-> FALSE]
    /\ fill_pc = "group"
    /\ PureIdle /\ LayoutIdle /\ OverlayIdle /\ ParseIdle

FillNext ==
    \/ GroupEntry \/ ParseModel \/ CheckEntry \/ ExitOnErrors
    \/ CreateWriter \/ UpdatePage \/ WriteOutput

SpecFill == FillInit /\ [][FillNext]_vars

(***************************************************************************)
(* apply_text_overlays.py: apply_text_overlays and                         *)
(* apply_text_overlays_with_reportlab                                      *)
(***************************************************************************)
\* The font names of CJK_FONT_PATHS, in the order of its keys.
CJK_FONT_NAMES ==
    <<"PingFang", "STHeiti", "ArialUnicode", "MicrosoftYaHei", "SimSun", "SimHei",
      "DroidSansFallback", "NotoSansCJK", "WenQuanYi">>

\* The number of font paths probed (CJK_FONT_PATHS has nine).
MaxFonts == 2

\* What the file system holds at a font path: nothing ("absent"), a font that
\* registers ("ok"), or a file TTFont / registerFont rejects ("broken").
FontStates == {"absent", "ok", "broken"}

\* The index of the first path that exists, 0 for (None, None).
find_cjk_font(fs) ==
    IF \E k \in 1..Len(fs) : fs[k] # "absent"
    THEN CHOOSE k \in 1..Len(fs) :
             fs[k] # "absent" /\ \A m \in 1..(k - 1) : fs[m] = "absent"
    ELSE 0

\* The registered font's name, "" for None.
register_cjk_font(fs) ==
    LET found == find_cjk_font(fs)
    IN  IF found # 0 /\ fs[found] = "ok" THEN CJK_FONT_NAMES[found] ELSE ""

\* "text_content" in entry and "content" in entry["text_content"]
HasContent(entry) ==
    "text_content" \in DOMAIN entry /\ "content" \in DOMAIN entry.text_content

\* The entry is not skipped as empty: it has content and the content is truthy.
NonEmpty(entry) == HasContent(entry) /\ entry.text_content.content # << >>

\* Mutation: only the first entry is scanned.
ScanForCjk_first(entries) ==
    /\ Len(entries) >= 1
    /\ HasContent(entries[1])
    /\ has_cjk_characters(entries[1].text_content.content)

\* The loop that sets has_cjk.
ScanForCjk(entries) ==
    \E k \in 1..Len(entries) :
        HasContent(entries[k]) /\ has_cjk_characters(entries[k].text_content.content)

\* next(p for p in config["page_dimensions"] if p["page_num"] == page_num): the
\* index of the first match, 0 when the generator is exhausted (StopIteration).
PageInfoIndex(dims, page_num) ==
    IF \E k \in 1..Len(dims) : dims[k].page_num = page_num
    THEN CHOOSE k \in 1..Len(dims) :
             dims[k].page_num = page_num
             /\ \A m \in 1..(k - 1) : dims[m].page_num # page_num
    ELSE 0

\* pdf_dims[page]: the media box of the page, in points.
PdfDims(page) == IF page = 1 THEN <<400, 200>> ELSE <<595, 842>>

\* dict.get(key, default)
Get(d, key, default) == IF key \in DOMAIN d THEN d[key] ELSE default

\* The entry's box in PDF coordinates (or the ZeroDivisionError).
TransformedBounds(entry, dims, page_num) ==
    LET page_info == dims[PageInfoIndex(dims, page_num)]
    IN  convert_image_to_pdf_coords(entry.entry_bounds,
                                    page_info.img_width, page_info.img_height,
                                    PdfDims(page_num)[1], PdfDims(page_num)[2])

\* The FreeText annotation of an entry.
FreeText(k, entry, rect) ==
    [entry |-> k, page_num |-> entry.page_num,
     text |-> entry.text_content.content, rect |-> rect,
     font |-> Get(entry.text_content, "font", "Arial"),
     font_size |-> Get(entry.text_content, "text_size", 14),
     font_color |-> Get(entry.text_content, "text_color", "000000")]

\* Fonts c.setFont accepts without registration, colours HexColor accepts.
ReportlabFonts == {"Helvetica", "Times-Roman", "Courier"}
HexColors == {"000000", "FF0000"}

\* What c.drawString puts on the canvas for an entry, after setFont and
\* setFillColor with their fallbacks.
DrawString(k, entry, rect, cjk_font) ==
    LET text_content == entry.text_content
        asked == Get(text_content, "font", "Helvetica")
        color == Get(text_content, "text_color", "000000")
    IN  [entry |-> k, page_num |-> entry.page_num,
         text |-> text_content.content, at |-> <<rect[1], rect[2]>>,
         font |-> IF has_cjk_characters(text_content.content) THEN cjk_font
                  ELSE IF asked \in ReportlabFonts THEN asked ELSE "Helvetica",
         font_size |-> Get(text_content, "text_size", 14),
         fill_color |-> IF color \in HexColors THEN color ELSE "000000"]

\* entries_by_page[page_num].append(entry), a new page being added at the end.
GroupAdd(by_page, page_num, k) ==
    IF \E g \in 1..Len(by_page) : by_page[g].page_num = page_num
    THEN [g \in 1..Len(by_page) |->
             IF by_page[g].page_num = page_num
             THEN [by_page[g] EXCEPT !.entries = Append(@, k)]
             ELSE by_page[g]]
    ELSE Append(by_page, [page_num |-> page_num, entries |-> <<k>>])

\* The grouping loop of apply_text_overlays_with_reportlab, from entry k on.
RECURSIVE GroupFrom(_, _, _)
GroupFrom(entries, k, by_page) ==
    IF k > Len(entries) THEN by_page
    ELSE GroupFrom(entries, k + 1,
                   IF NonEmpty(entries[k])
                   THEN GroupAdd(by_page, entries[k].page_num, k)
                   ELSE by_page)

\* Mutation: without a font the run falls through to the annotation loop.
AfterRegister_fallthrough(font_name) == IF font_name # "" THEN "group" ELSE "annotate"

\* Mutation: the temporary file is removed after the merge only, with no
\* try/finally around the rendering.
RemoveScratch_no_finally(files, tmp_path, raising) ==
    IF raising THEN files ELSE files \ {tmp_path}

\* finally: if os.path.exists(tmp_path): os.unlink(tmp_path). The clause runs
\* whether the try block ends normally or raises.
RemoveScratch(files, tmp_path, raising) == files \ {tmp_path}

\* if cjk_font_name: the embedded-glyph path; else: sys.exit(1).
AfterRegister(font_name) == IF font_name # "" THEN "group" ELSE "exit1"

\* Config and PDF are read, the pages copied to the writer, has_cjk computed.
ScanConfig ==
    /\ overlay_pc = "start"
    /\ has_cjk' = ScanForCjk(overlay_entries)
    /\ overlay_idx' = 1
    /\ overlay_pc' = IF ScanForCjk(overlay_entries) THEN "register" ELSE "annotate"
    /\ UNCHANGED <<overlay_entries, page_dimensions, pdf_pages, fonts, cjk_font_name,
                   entries_by_page, entry_idx, canvas, scratch, annotations, merged,
                   overlay_output, overlay_error>>
    /\ UNCHANGED <<pureVars, layoutVars, fillVars, parseVars>>

\* register_cjk_font() against whatever the font paths hold, then the branch on
\* its result.
RegisterFont ==
    /\ overlay_pc = "register"
    /\ \E fs \in [1..MaxFonts -> FontStates] :
          /\ fonts' = fs
          /\ cjk_font_name' = register_cjk_font(fs)
          /\ overlay_pc' = AfterRegister(register_cjk_font(fs))
          /\ overlay_error' = IF AfterRegister(register_cjk_font(fs)) = "exit1"
                              THEN "no CJK font" ELSE overlay_error
    /\ UNCHANGED <<overlay_entries, page_dimensions, pdf_pages, has_cjk,
                   entries_by_page, overlay_idx, entry_idx, canvas, scratch,
                   annotations, merged, overlay_output>>
    /\ UNCHANGED <<pureVars, layoutVars, fillVars, parseVars>>

\* One iteration of the FreeText loop that ends normally.
AnnotateEntry ==
    /\ overlay_pc = "annotate" /\ overlay_idx <= Len(overlay_entries)
    /\ LET entry == overlay_entries[overlay_idx]
           page_num == entry.page_num
       IN  IF PageInfoIndex(page_dimensions, page_num) = 0
           THEN /\ overlay_pc' = "raised" /\ overlay_error' = "StopIteration"
                /\ UNCHANGED <<overlay_idx, annotations>>
           ELSE IF page_num \notin 1..pdf_pages
           THEN /\ overlay_pc' = "raised" /\ overlay_error' = "KeyError"
                /\ UNCHANGED <<overlay_idx, annotations>>
           ELSE LET transformed_bounds ==
                        TransformedBounds(entry, page_dimensions, page_num)
                IN  IF transformed_bounds = ZeroDivisionError
                    THEN /\ overlay_pc' = "raised"
                         /\ overlay_error' = "ZeroDivisionError"
                         /\ UNCHANGED <<overlay_idx, annotations>>
                    ELSE /\ annotations' =
                                IF NonEmpty(entry)
                                THEN Append(annotations,
                                            FreeText(overlay_idx, entry,
                                                     transformed_bounds.value))
                                ELSE annotations
                         /\ overlay_idx' = overlay_idx + 1
                         /\ UNCHANGED <<overlay_pc, overlay_error>>
    /\ UNCHANGED <<overlay_entries, page_dimensions, pdf_pages, fonts, has_cjk,
                   cjk_font_name, entries_by_page, entry_idx, canvas, scratch, merged,
                   overlay_output>>
    /\ UNCHANGED <<pureVars, layoutVars, fillVars, parseVars>>

\* FreeText(...) or writer.add_annotation raises for an entry that is not
\* skipped.
AnnotateFault ==
    /\ overlay_pc = "annotate" /\ overlay_idx <= Len(overlay_entries)
    /\ LET entry == overlay_entries[overlay_idx]
       IN  /\ PageInfoIndex(page_dimensions, entry.page_num) # 0
           /\ entry.page_num \in 1..pdf_pages
           /\ TransformedBounds(entry, page_dimensions, entry.page_num)
                  # ZeroDivisionError
           /\ NonEmpty(entry)
    /\ overlay_pc' = "raised" /\ overlay_error' = "fault"
    /\ UNCHANGED <<overlay_entries, page_dimensions, pdf_pages, fonts, has_cjk,
                   cjk_font_name, entries_by_page, overlay_idx, entry_idx, canvas,
                   scratch, annotations, merged, overlay_output>>
    /\ UNCHANGED <<pureVars, layoutVars, fillVars, parseVars>>

\* The annotated PDF is written.
WriteAnnotated ==
    /\ overlay_pc = "annotate" /\ overlay_idx > Len(overlay_entries)
    /\ overlay_output' =
           [written |-> TRUE, annotations |-> annotations, merged |-> merged]
    /\ overlay_pc' = "done"
    /\ UNCHANGED <<overlay_entries, page_dimensions, pdf_pages, fonts, has_cjk,
                   cjk_font_name, entries_by_page, overlay_idx, entry_idx, canvas,
                   scratch, annotations, merged, overlay_error>>
    /\ UNCHANGED <<pureVars, layoutVars, fillVars, parseVars>>

\* apply_text_overlays_with_reportlab: the entries are grouped by page.
GroupByPage ==
    /\ overlay_pc = "group"
    /\ entries_by_page' = GroupFrom(overlay_entries, 1, << >>)
    /\ overlay_idx' = 1
    /\ overlay_pc' = "page"
    /\ UNCHANGED <<overlay_entries, page_dimensions, pdf_pages, fonts, has_cjk,
                   cjk_font_name, entry_idx, canvas, scratch, annotations, merged,
                   overlay_output, overlay_error>>
    /\ UNCHANGED <<pureVars, layoutVars, fillVars, parseVars>>

\* The head of the page loop: the page's sizes are looked up and the temporary
\* file is created (it is named after the position of the page in the loop).
BeginPage ==
    /\ overlay_pc = "page" /\ overlay_idx <= Len(entries_by_page)
    /\ LET page_num == entries_by_page[overlay_idx].page_num
       IN  IF page_num \notin 1..pdf_pages
           THEN /\ overlay_pc' = "raised" /\ overlay_error' = "KeyError"
                /\ UNCHANGED <<scratch, entry_idx>>
           ELSE IF PageInfoIndex(page_dimensions, page_num) = 0
           THEN /\ overlay_pc' = "raised" /\ overlay_error' = "StopIteration"
                /\ UNCHANGED <<scratch, entry_idx>>
           ELSE /\ scratch' = scratch \cup {overlay_idx}
                /\ entry_idx' = 1
                /\ overlay_pc' = "draw"
                /\ UNCHANGED overlay_error
    /\ UNCHANGED <<overlay_entries, page_dimensions, pdf_pages, fonts, has_cjk,
                   cjk_font_name, entries_by_page, overlay_idx, canvas, annotations,
                   merged, overlay_output>>
    /\ UNCHANGED <<pureVars, layoutVars, fillVars, parseVars>>

\* One entry is drawn on the canvas; a ZeroDivisionError leaves the try block
\* through its finally clause, which removes the temporary file.
DrawEntry ==
    /\ overlay_pc = "draw"
    /\ entry_idx <= Len(entries_by_page[overlay_idx].entries)
    /\ LET k == entries_by_page[overlay_idx].entries[entry_idx]
           entry == overlay_entries[k]
           rect == TransformedBounds(entry, page_dimensions, entry.page_num)
       IN  IF rect = ZeroDivisionError
           THEN /\ scratch' = RemoveScratch(scratch, overlay_idx, TRUE)
                /\ overlay_pc' = "raised" /\ overlay_error' = "ZeroDivisionError"
                /\ UNCHANGED <<canvas, entry_idx>>
           ELSE /\ canvas' = Append(canvas, DrawString(k, entry, rect.value, cjk_font_name))
                /\ entry_idx' = entry_idx + 1
                /\ UNCHANGED <<scratch, overlay_pc, overlay_error>>
    /\ UNCHANGED <<overlay_entries, page_dimensions, pdf_pages, fonts, has_cjk,
                   cjk_font_name, entries_by_page, overlay_idx, annotations, merged,
                   overlay_output>>
    /\ UNCHANGED <<pureVars, layoutVars, fillVars, parseVars>>

\* Something inside the try block raises (the canvas, setFont with the CJK
\* font, drawString, save, PdfReader of the overlay, merge_page): the finally
\* clause removes the temporary file and the exception propagates.
RenderFault ==
    /\ overlay_pc = "draw"
    /\ scratch' = RemoveScratch(scratch, overlay_idx, TRUE)
    /\ overlay_pc' = "raised" /\ overlay_error' = "fault"
    /\ UNCHANGED <<overlay_entries, page_dimensions, pdf_pages, fonts, has_cjk,
                   cjk_font_name, entries_by_page, overlay_idx, entry_idx, canvas,
                   annotations, merged, overlay_output>>
    /\ UNCHANGED <<pureVars, layoutVars, fillVars, parseVars>>

\* c.save(), the overlay is read back and merged into the page, the finally
\* clause removes the temporary file; on to the next page.
SaveAndMerge ==
    /\ overlay_pc = "draw"
    /\ entry_idx > Len(entries_by_page[overlay_idx].entries)
    /\ merged' = Append(merged, [page_num |-> entries_by_page[overlay_idx].page_num,
                                 drawn |-> canvas])
    /\ canvas' = << >>
    /\ scratch' = RemoveScratch(scratch, overlay_idx, FALSE)
    /\ overlay_idx' = overlay_idx + 1
    /\ overlay_pc' = "page"
    /\ UNCHANGED <<overlay_entries, page_dimensions, pdf_pages, fonts, has_cjk,
                   cjk_font_name, entries_by_page, entry_idx, annotations,
                   overlay_output, overlay_error>>
    /\ UNCHANGED <<pureVars, layoutVars, fillVars, parseVars>>

\* The PDF with the merged overlays is written.
WriteEmbedded ==
    /\ overlay_pc = "page" /\ overlay_idx > Len(entries_by_page)
    /\ overlay_output' =
           [written |-> TRUE, annotations |-> annotations, merged |-> merged]
    /\ overlay_pc' = "done"
    /\ UNCHANGED <<overlay_entries, page_dimensions, pdf_pages, fonts, has_cjk,
                   cjk_font_name, entries_by_page, overlay_idx, entry_idx, canvas,
                   scratch, annotations, merged, overlay_error>>
    /\ UNCHANGED <<pureVars, layoutVars, fillVars, parseVars>>

\* Field entries of form_config.json for the overlay.
OverlayAscii ==
    [description |-> "Name", page_num |-> 1, entry_bounds |-> <<0, 0, 100, 50>>,
     text_content |-> [content |-> <<72, 105>>, font |-> "Arial", text_size |-> 12]]
OverlayNearCjk ==
    [description |-> "Code", page_num |-> 2, entry_bounds |-> <<0, 0, 100, 50>>,
     text_content |-> [content |-> <<12287, 65520>>]]
OverlayCjk ==
    [description |-> "City", page_num |-> 2, entry_bounds |-> <<0, 50, 100, 100>>,
     text_content |-> [content |-> <<20013>>]]
OverlayMixed ==
    [description |-> "Note", page_num |-> 1, entry_bounds |-> <<50, 50, 100, 100>>,
     text_content |-> [content |-> <<65, 12288>>, text_color |-> "zzzzzz"]]
OverlayEmpty ==
    [description |-> "Blank", page_num |-> 1, entry_bounds |-> <<0, 0, 100, 50>>,
     text_content |-> [content |-> << >>]]
OverlayNoContent ==
    [description |-> "Styled", page_num |-> 2, entry_bounds |-> <<0, 0, 100, 50>>,
     text_content |-> [font |-> "Arial"]]
OverlayNoText ==
    [description |-> "Label", page_num |-> 1, entry_bounds |-> <<0, 0, 100, 50>>]

OverlayEntries ==
    {OverlayAscii, OverlayNearCjk, OverlayCjk, OverlayMixed, OverlayEmpty,
     OverlayNoContent, OverlayNoText}

PageDim(page, w, h) == [page_num |-> page, img_width |-> w, img_height |-> h]
PageDimensions ==
    { <<PageDim(1, 200, 100), PageDim(2, 200, 100)>>,
      <<PageDim(1, 200, 100)>>,
      <<PageDim(1, 200, 100), PageDim(2, 0, 100)>> }

MaxOverlayEntries == 3

\* The page counts of the input PDFs.
PdfPageCounts == {1, 2}

OverlayInit ==
    /\ overlay_entries \in UNION {[1..n -> OverlayEntries] : n \in 0..MaxOverlayEntries}
    /\ page_dimensions \in PageDimensions
    /\ pdf_pages \in PdfPageCounts
    /\ fonts = << >> /\ has_cjk = FALSE /\ cjk_font_name = ""
    /\ entries_by_page = << >> /\ overlay_idx = 0 /\ entry_idx = 0
    /\ canvas = << >> /\ scratch = {} /\ annotations = << >> /\ merged = << >>
    /\ overlay_output = [written |-> FALSE] /\ overlay_error = ""
    /\ overlay_pc = "start"
    /\ PureIdle /\ LayoutIdle /\ FillIdle /\ ParseIdle

OverlayNext ==
    \/ ScanConfig \/ RegisterFont
    \/ AnnotateEntry \/ AnnotateFault \/ WriteAnnotated
    \/ GroupByPage \/ BeginPage \/ DrawEntry \/ RenderFault \/ SaveAndMerge
    \/ WriteEmbedded

SpecOverlay == OverlayInit /\ [][OverlayNext]_vars

(***************************************************************************)
(* parse_form_structure.py: parse_form_elements                            *)
(*                                                                         *)
(* A PDF dictionary is a record whose keys are the PDF names without the   *)
(* slash: "T", "Parent", "Rect", "AP" (with "N" inside), "FT", "Kids" and  *)
(* "States" (/_States_). A missing key is a key the record does not have.  *)
(***************************************************************************)
\* The value a missing /Rect gives: ann.get('/Rect') is None.
NoRect == << >>

\* A returned str, to tell it from None.
Str(v) == [tag |-> "str", value |-> v]

\* "while annotation:": None and the empty dict are falsy.
DictTruthy(dict) == dict # None /\ DOMAIN dict # {}

\* ".".join(reversed(parts)) for a non-empty parts.
RECURSIVE JoinReversed(_)
JoinReversed(ps) ==
    IF Len(ps) = 1 THEN ps[1]
    ELSE ps[Len(ps)] \o "." \o JoinReversed(SubSeq(ps, 1, Len(ps) - 1))

\* return ".".join(reversed(parts)) if parts else None
ReturnedId(ps) == IF ps # << >> THEN Str(JoinReversed(ps)) ELSE None

\* Mutation: the name is put in front of the parts (parts.insert(0, name)).
PartsAfter_prepend(ps, annotation) ==
    LET name == Get(annotation, "T", "")
    IN  IF name # "" THEN <<name>> \o ps ELSE ps

\* One iteration of the while loop on the dictionary "annotation": the parts
\* after it. A name that is missing or empty is not appended.
PartsAfter(ps, annotation) ==
    LET name == Get(annotation, "T", "")
    IN  IF name # "" THEN Append(ps, name) ELSE ps

\* build_complete_element_id, the whole loop at once.
RECURSIVE CollectParts(_, _)
CollectParts(ps, annotation) ==
    IF DictTruthy(annotation)
    THEN CollectParts(PartsAfter(ps, annotation), Get(annotation, "Parent", None))
    ELSE ps

build_complete_element_id(annotation) == ReturnedId(CollectParts(<< >>, annotation))

WarnPositional(element_id) == [kind |-> "positional_states", element_id |-> element_id]
WarnExcluded(element_id) == [kind |-> "excluded", element_id |-> element_id]

\* Mutation: the first state is taken as the on value wherever "/Off" stands.
ToggleValues_first(available_states) ==
    [on_value |-> available_states[1],
     off_value |-> IF "/Off" \in SeqToSet(available_states)
                   THEN "/Off" ELSE available_states[2]]

\* The on/off values of a toggle with two states.
ToggleValues(available_states) ==
    IF "/Off" \in SeqToSet(available_states)
    THEN [on_value |-> IF available_states[1] # "/Off"
                       THEN available_states[1] ELSE available_states[2],
          off_value |-> "/Off"]
    ELSE [on_value |-> available_states[1], off_value |-> available_states[2]]

\* build_element_dict: the element and the lines it prints.
build_element_dict(field, element_id) ==
    LET element_dict == [element_id |-> element_id]
        field_type == Get(field, "FT", "None")
        available_states == Get(field, "States", << >>)
    IN  IF field_type = "/Tx"
        THEN [element |-> DictPut(element_dict, "element_type", "text_input"),
              printed |-> << >>]
        ELSE IF field_type = "/Btn"
        THEN LET toggle == DictPut(element_dict, "element_type", "toggle_box")
                 values == ToggleValues(available_states)
             IN  IF Len(available_states) = 2
                 THEN [element |-> DictPut(DictPut(toggle, "on_value", values.on_value),
                                           "off_value", values.off_value),
                       printed |-> IF "/Off" \in SeqToSet(available_states)
                                   THEN << >> ELSE <<WarnPositional(element_id)>>]
                 ELSE [element |-> toggle, printed |-> << >>]
        ELSE IF field_type = "/Ch"
        THEN [element |->
                  DictPut(DictPut(element_dict, "element_type", "dropdown"),
                          "menu_items",
                          [k \in 1..Len(available_states) |->
                              [option_value |-> available_states[k][1],
                               display_text |-> available_states[k][2]]]),
              printed |-> << >>]
        ELSE [element |-> DictPut(element_dict, "element_type",
                                  "unknown (" \o field_type \o ")"),
              printed |-> << >>]

\* v != "/Off"
NotOff(v) == v # "/Off"

\* [v for v in ann["/AP"]["/N"] if v != "/Off"], or the KeyError.
ActiveValues(ann) ==
    IF "AP" \notin DOMAIN ann THEN KeyError("/AP")
    ELSE IF "N" \notin DOMAIN ann.AP THEN KeyError("/N")
    ELSE [tag |-> "list", value |-> SelectSeq(ann.AP.N, NotOff)]

\* Mutation: an annotation with several non-off states records its first one.
OptionRecorded_any(active_values) == Len(active_values) >= 1

\* if len(active_values) == 1
OptionRecorded(active_values) == Len(active_values) = 1

\* Mutation: every recorded option opens a group of its own.
AddOption_new_group(groups, element_id, page_num, option) ==
    Append(groups, [element_id |-> element_id, element_type |-> "option_group",
                    page_num |-> page_num, available_options |-> <<option>>])

\* The group is created at its first option; the option is appended to it.
AddOption(groups, element_id, page_num, option) ==
    IF \E k \in 1..Len(groups) : groups[k].element_id = element_id
    THEN [k \in 1..Len(groups) |->
             IF groups[k].element_id = element_id
             THEN [groups[k] EXCEPT !.available_options = Append(@, option)]
             ELSE groups[k]]
    ELSE Append(groups, [element_id |-> element_id, element_type |-> "option_group",
                         page_num |-> page_num, available_options |-> <<option>>])

\* elements_by_id[element_id]["page_num"] = ...; ["bounds"] = ann.get('/Rect')
SetLocation(elems, element_id, page_num, bounds) ==
    [k \in 1..Len(elems) |->
        IF elems[k].element_id = element_id
        THEN DictPut(DictPut(elems[k], "page_num", page_num), "bounds", bounds)
        ELSE elems[k]]

HasPageNum(element) == "page_num" \in DOMAIN element
LacksPageNum(element) == "page_num" \notin DOMAIN element

\* The lines printed for the elements that are left out, in order.
ExcludedWarnings(elems) ==
    LET left_out == SelectSeq(elems, LacksPageNum)
    IN  [k \in 1..Len(left_out) |-> WarnExcluded(left_out[k].element_id)]

\* bounds or [0, 0, 0, 0]
OrZeros(bounds) == IF bounds = NoRect THEN <<0, 0, 0, 0>> ELSE bounds

\* Mutation: the vertical position is not negated.
sort_key_ascending(elem) ==
    LET bounds == IF "available_options" \in DOMAIN elem
                  THEN OrZeros(elem.available_options[1].bounds)
                  ELSE OrZeros(Get(elem, "bounds", NoRect))
    IN  <<Get(elem, "page_num", 0), bounds[2], bounds[1]>>

\* sort_key: [page_num, [-bounds[1], bounds[0]]] (Python indices from 0).
sort_key(elem) ==
    LET bounds == IF "available_options" \in DOMAIN elem
                  THEN OrZeros(elem.available_options[1].bounds)
                  ELSE OrZeros(Get(elem, "bounds", NoRect))
    IN  <<Get(elem, "page_num", 0), -bounds[2], bounds[1]>>

\* Python's order on the keys: lexicographic.
KeyLess(a, b) ==
    \/ a[1] < b[1]
    \/ a[1] = b[1] /\ a[2] < b[2]
    \/ a[1] = b[1] /\ a[2] = b[2] /\ a[3] < b[3]

\* list.sort(key=sort_key) is stable: an element goes after those of the
\* sorted prefix whose key is not greater than its own.
InsertSorted(sorted, elem) ==
    LET before == Cardinality({k \in 1..Len(sorted) :
                                  ~KeyLess(sort_key(elem), sort_key(sorted[k]))})
    IN  SubSeq(sorted, 1, before) \o <<elem>> \o SubSeq(sorted, before + 1, Len(sorted))

RECURSIVE SortByKey(_)
SortByKey(elems) ==
    IF elems = << >> THEN << >>
    ELSE InsertSorted(SortByKey(SubSeq(elems, 1, Len(elems) - 1)), elems[Len(elems)])

\* fields = reader.get_fields(); "for element_id, field in fields.items()"
\* raises AttributeError when the reader found no fields and returned None.
GetFields ==
    /\ parse_pc = "start"
    /\ IF fields = None
       THEN /\ parse_pc' = "raised" /\ parse_error' = "AttributeError"
            /\ UNCHANGED field_idx
       ELSE /\ parse_pc' = "fields" /\ field_idx' = 1
            /\ UNCHANGED parse_error
    /\ UNCHANGED <<fields, pages, parse_elements_by_id, potential_option_groups,
                   option_groups_by_id, page_idx, ann_idx, node, parts, warnings,
                   sorted_elements>>
    /\ UNCHANGED <<pureVars, layoutVars, fillVars, overlayVars>>

\* One iteration of the loop over fields.items().
ClassifyField ==
    /\ parse_pc = "fields" /\ field_idx <= Len(fields.items)
    /\ LET element_id == fields.items[field_idx].id
           field == fields.items[field_idx].field
           built == build_element_dict(field, element_id)
       IN  IF Get(field, "Kids", << >>) # << >>
           THEN /\ potential_option_groups' =
                       IF Get(field, "FT", "None") = "/Btn"
                       THEN potential_option_groups \cup {element_id}
                       ELSE potential_option_groups
                /\ UNCHANGED <<parse_elements_by_id, warnings>>
           ELSE /\ parse_elements_by_id' = Append(parse_elements_by_id, built.element)
                /\ warnings' = warnings \o built.printed
                /\ UNCHANGED potential_option_groups
    /\ field_idx' = field_idx + 1
    /\ UNCHANGED <<fields, pages, option_groups_by_id, page_idx, ann_idx, node, parts,
                   sorted_elements, parse_error, parse_pc>>
    /\ UNCHANGED <<pureVars, layoutVars, fillVars, overlayVars>>

\* The loop over the fields is over: option_groups_by_id = {} and the loop
\* over the pages starts.
BeginPages ==
    /\ parse_pc = "fields" /\ field_idx > Len(fields.items)
    /\ option_groups_by_id' = << >>
    /\ page_idx' = 0 /\ ann_idx' = 1
    /\ parse_pc' = "annots"
    /\ UNCHANGED <<fields, pages, parse_elements_by_id, potential_option_groups,
                   field_idx, node, parts, warnings, sorted_elements, parse_error>>
    /\ UNCHANGED <<pureVars, layoutVars, fillVars, overlayVars>>

\* The heads of the two loops: the next page, or the next annotation of the
\* page, whose id build_complete_element_id starts to resolve.
NextAnnotation ==
    /\ parse_pc = "annots"
    /\ IF page_idx >= Len(pages)
       THEN /\ parse_pc' = "publish"
            /\ UNCHANGED <<page_idx, ann_idx, node, parts>>
       ELSE IF ann_idx > Len(pages[page_idx + 1])
       THEN /\ page_idx' = page_idx + 1 /\ ann_idx' = 1
            /\ UNCHANGED <<node, parts, parse_pc>>
       ELSE /\ node' = pages[page_idx + 1][ann_idx]
            /\ parts' = << >>
            /\ parse_pc' = "resolve"
            /\ UNCHANGED <<page_idx, ann_idx>>
    /\ UNCHANGED <<fields, pages, parse_elements_by_id, potential_option_groups,
                   option_groups_by_id, field_idx, warnings, sorted_elements,
                   parse_error>>
    /\ UNCHANGED <<pureVars, layoutVars, fillVars, overlayVars>>

\* One iteration of the while loop of build_complete_element_id.
ResolveStep ==
    /\ parse_pc = "resolve" /\ DictTruthy(node)
    /\ parts' = PartsAfter(parts, node)
    /\ node' = Get(node, "Parent", None)
    /\ UNCHANGED <<fields, pages, parse_elements_by_id, potential_option_groups,
                   option_groups_by_id, field_idx, page_idx, ann_idx, warnings,
                   sorted_elements, parse_error, parse_pc>>
    /\ UNCHANGED <<pureVars, layoutVars, fillVars, overlayVars>>

\* build_complete_element_id returns and the annotation is matched against
\* the leaf elements, then against the potential option groups.
MatchAnnotation ==
    /\ parse_pc = "resolve" /\ ~DictTruthy(node)
    /\ LET ann == pages[page_idx + 1][ann_idx]
           element_id == ReturnedId(parts)
           active_values == ActiveValues(ann)
       IN  IF /\ element_id # None
              /\ \E k \in 1..Len(parse_elements_by_id) :
                     parse_elements_by_id[k].element_id = element_id.value
           THEN /\ parse_elements_by_id' =
                       SetLocation(parse_elements_by_id, element_id.value,
                                   page_idx + 1, Get(ann, "Rect", NoRect))
                /\ UNCHANGED option_groups_by_id
           ELSE IF /\ element_id # None
                   /\ element_id.value \in potential_option_groups
                   /\ active_values.tag = "list"
                   /\ OptionRecorded(active_values.value)
           THEN /\ option_groups_by_id' =
                       AddOption(option_groups_by_id, element_id.value, page_idx + 1,
                                 [option_value |-> active_values.value[1],
                                  bounds |-> Get(ann, "Rect", NoRect)])
                /\ UNCHANGED parse_elements_by_id
           ELSE UNCHANGED <<parse_elements_by_id, option_groups_by_id>>
    /\ ann_idx' = ann_idx + 1
    /\ node' = None /\ parts' = << >>
    /\ parse_pc' = "annots"
    /\ UNCHANGED <<fields, pages, potential_option_groups, field_idx, page_idx,
                   warnings, sorted_elements, parse_error>>
    /\ UNCHANGED <<pureVars, layoutVars, fillVars, overlayVars>>

\* The elements without a page are left out with a warning, the option groups
\* are added, the list is sorted and returned.
Publish ==
    /\ parse_pc = "publish"
    /\ warnings' = warnings \o ExcludedWarnings(parse_elements_by_id)
    /\ sorted_elements' =
           SortByKey(SelectSeq(parse_elements_by_id, HasPageNum) \o option_groups_by_id)
    /\ parse_pc' = "done"
    /\ UNCHANGED <<fields, pages, parse_elements_by_id, potential_option_groups,
                   option_groups_by_id, field_idx, page_idx, ann_idx, node, parts,
                   parse_error>>
    /\ UNCHANGED <<pureVars, layoutVars, fillVars, overlayVars>>

\* ---- the documents parse_form_elements is applied to
Item(id, field) == [id |-> id, field |-> field]
Dict(items) == [tag |-> "dict", items |-> items]

\* What reader.get_fields() returns: None for a document without fields, else
\* the dict from qualified id to field (its keys are distinct). The fields:
\* text ("t", "f.n"), toggles with "/Off" second ("c"), first ("o") and absent
\* ("p"), a push button without states ("k"), a radio group ("g"), a
\* container that is no button ("f"), a choice ("d") and a signature ("s").
SmallDocument ==
    Dict(<<Item("t", [FT |-> "/Tx"]),
           Item("c", [FT |-> "/Btn", States |-> <<"/Yes", "/Off">>]),
           Item("g", [FT |-> "/Btn", Kids |-> <<"kid1", "kid2">>]),
           Item("d", [FT |-> "/Ch", States |-> <<<<"a", "A">>, <<"b", "B">>>>])>>)

LargeDocument ==
    Dict(<<Item("d", [FT |-> "/Ch", States |-> <<<<"a", "A">>, <<"b", "B">>>>]),
           Item("s", [FT |-> "/Sig"]),
           Item("k", [FT |-> "/Btn"]),
           Item("p", [FT |-> "/Btn", States |-> <<"/1", "/2">>]),
           Item("o", [FT |-> "/Btn", States |-> <<"/Off", "/On">>]),
           Item("g", [FT |-> "/Btn", Kids |-> <<"kid1", "kid2">>]),
           Item("f", [Kids |-> <<"n">>]),
           Item("f.n", [FT |-> "/Tx"]),
           Item("t", [FT |-> "/Tx"])>>)

FieldDocuments == {None, Dict(<< >>), SmallDocument, LargeDocument}

\* Page annotations: widgets of the fields above. A radio button's widget has
\* no /T (or an empty one) and its /Parent is the group.
AnnNested == [T |-> "n", Rect |-> <<10, 600, 100, 620>>, Parent |-> [T |-> "f"]]
AnnRadioA ==
    [Rect |-> <<50, 700, 60, 710>>, AP |-> [N |-> <<"/a", "/Off">>],
     Parent |-> [T |-> "g"]]
AnnRadioB ==
    [T |-> "", Rect |-> <<70, 640, 80, 650>>, AP |-> [N |-> <<"/Off", "/b">>],
     Parent |-> [T |-> "g"]]

\* Besides these: the widgets of "t" (with and without /Rect), of "d" (at the
\* corner of "t"), of "c" and of "k"; an annotation without any name; widgets
\* of "g" with two non-off states, with "/Off" only and without /AP.
PageAnnotations ==
    { AnnNested, AnnRadioA, AnnRadioB,
      [T |-> "t", Rect |-> <<10, 700, 100, 720>>],
      [T |-> "t"],
      [T |-> "d", Rect |-> <<10, 700, 100, 725>>],
      [T |-> "c", Rect |-> <<10, 650, 30, 670>>, AP |-> [N |-> <<"/Yes", "/Off">>]],
      [T |-> "k", Rect |-> <<200, 700, 260, 720>>],
      [Rect |-> <<10, 500, 100, 520>>, Parent |-> [Kids |-> <<"x">>]],
      [Rect |-> <<90, 700, 95, 710>>, AP |-> [N |-> <<"/a", "/b">>],
       Parent |-> [T |-> "g"]],
      [Rect |-> <<90, 700, 95, 710>>, AP |-> [N |-> <<"/Off">>], Parent |-> [T |-> "g"]],
      [Rect |-> <<90, 700, 95, 710>>, Parent |-> [T |-> "g"]] }

\* The most annotations a document has.
MaxAnnotations == 2

\* Two pages: the annotations of the document, split between them.
PageLists ==
    UNION {{<<SubSeq(a, 1, k), SubSeq(a, k + 1, n)>> : k \in 0..n, a \in [1..n -> PageAnnotations]}
           : n \in 0..MaxAnnotations}

\* The state at the call, for a document and page lists among the given ones.
ParseStart(documents, page_lists) ==
    /\ fields \in documents
    /\ pages \in page_lists
    /\ parse_elements_by_id = << >> /\ potential_option_groups = {}
    /\ option_groups_by_id = << >>
    /\ field_idx = 0 /\ page_idx = 0 /\ ann_idx = 0
    /\ node = None /\ parts = << >> /\ warnings = << >>
    /\ sorted_elements = << >> /\ parse_error = "" /\ parse_pc = "start"
    /\ PureIdle /\ LayoutIdle /\ FillIdle /\ OverlayIdle

ParseInit == ParseStart(FieldDocuments, PageLists)

\* The calls on which the termination of the id resolution is followed: one
\* annotation on each of two pages (what the resolution of an annotation does
\* depends on that annotation alone).
ResolveInit ==
    ParseStart({SmallDocument}, {<<<<a>>, <<b>>>> : a, b \in PageAnnotations})

ParseNext ==
    \/ GetFields \/ ClassifyField \/ BeginPages
    \/ NextAnnotation \/ ResolveStep \/ MatchAnnotation
    \/ Publish

SpecParse == ParseInit /\ [][ParseNext]_vars

\* The scheduler of a sequential program: a step that can be taken is taken.
SpecParseFair == ResolveInit /\ [][ParseNext]_vars /\ WF_vars(ParseNext)

(***************************************************************************)
(* The repository's scripts together: a run is one call of one of them.    *)
(***************************************************************************)
Init == PureInit \/ LayoutInit \/ FillInit \/ OverlayInit \/ ParseInit

Next == PureNext \/ LayoutNext \/ FillNext \/ OverlayNext \/ ParseNext

Spec == Init /\ [][Next]_vars

(***************************************************************************)
(* Claims about the pure functions (checked under SpecPure)                *)
(***************************************************************************)
\* The element carries the attributes its element_type requires.
HasTypeAttributes(e) ==
    /\ e.element_type = "toggle_box" => {"on_value", "off_value"} \subseteq DOMAIN e
    /\ e.element_type = "option_group" => "available_options" \in DOMAIN e
    /\ e.element_type = "dropdown" => "menu_items" \in DOMAIN e

\* The valid domain of an element, as the claim describes it.
ValidDomain(e) ==
    IF e.element_type = "toggle_box" THEN {e.on_value, e.off_value}
    ELSE IF e.element_type = "option_group"
         THEN {e.available_options[k].option_value : k \in 1..Len(e.available_options)}
    ELSE IF e.element_type = "dropdown"
         THEN {e.menu_items[k].option_value : k \in 1..Len(e.menu_items)}
    ELSE {}

Validated == call.fn = "validate_element_value" /\ ret # Pending

\* C2: validate_element_value returns a diagnostic exactly when the element is
\* a toggle_box, option_group or dropdown and fill_value is outside its valid
\* domain (on/off value, option values, menu item values), and None otherwise;
\* a text_input accepts every value; the diagnostic lists the valid domain
\* (dropdown {a, b} rejects c with a diagnostic listing a and b).
C2_ValidateExactly ==
    (Validated /\ HasTypeAttributes(call.element_info)) =>
        LET e == call.element_info
            v == call.fill_value
            constrained == e.element_type \in {"toggle_box", "option_group", "dropdown"}
        IN  /\ ret.tag \in {"error", "None"}
            /\ (ret.tag = "error") <=> (constrained /\ v \notin ValidDomain(e))
            /\ (ret.tag = "None") <=> ~(constrained /\ v \notin ValidDomain(e))
            /\ e.element_type = "text_input" => ret = None
            /\ ret.tag = "error" =>
                   /\ SeqToSet(ret.valid_values) = ValidDomain(e)
                   /\ ret.element_id = e.element_id
                   /\ ret.fill_value = v
            /\ (e = ElemDropdown /\ v = "c") =>
                   (ret.tag = "error" /\ ret.valid_values = <<"a", "b">>)

\* C2 witness: the dropdown {a, b} has rejected c, listing a and b.
C2_Witness ==
    /\ Validated
    /\ call.element_info = ElemDropdown /\ call.fill_value = "c"
    /\ ret.tag = "error" /\ ret.valid_values = <<"a", "b">>

Overlapped == call.fn = "bounds_overlap" /\ ret # Pending

\* C3: the overlap test is strict interval intersection: a and b overlap iff
\* not (a.x1 <= b.x0 or a.x0 >= b.x1 or a.y1 <= b.y0 or a.y0 >= b.y1); it is
\* symmetric; boxes sharing only an edge do not overlap; [0,0,10,10] and
\* [10,0,20,10] do not overlap, [0,0,10,10] and [9,0,20,10] do.
C3_OverlapStrict ==
    Overlapped =>
        LET a == call.b1
            b == call.b2
        IN  /\ ret.value = ~(a[3] <= b[1] \/ a[1] >= b[3] \/ a[4] <= b[2] \/ a[2] >= b[4])
            /\ ret.value = bounds_overlap(b, a)
            /\ (a[3] = b[1] \/ a[1] = b[3] \/ a[4] = b[2] \/ a[2] = b[4]) => ~ret.value
            /\ (a = <<0, 0, 10, 10>> /\ b = <<10, 0, 20, 10>>) => ~ret.value
            /\ (a = <<0, 0, 10, 10>> /\ b = <<9, 0, 20, 10>>) => ret.value

\* C3 witness: the touching pair of the claim has been tested and found apart.
C3_Witness ==
    /\ Overlapped
    /\ call.b1 = <<0, 0, 10, 10>> /\ call.b2 = <<10, 0, 20, 10>>
    /\ ret.value = FALSE

Converted == call.fn = "convert_image_to_pdf_coords" /\ ret # Pending

LayoutDone == layout_pc = "done"
CapHit == \E m \in 1..Len(messages) : messages[m].kind = "abort"
CountKind(kinds) == Cardinality({m \in 1..Len(messages) : messages[m].kind \in kinds})
FailureKinds == {"overlap", "overlap_self", "height"}

\* Strict interval intersection, as the claims state it.
StrictlyIntersect(a, b) ==
    ~(a[3] <= b[1] \/ a[1] >= b[3] \/ a[4] <= b[2] \/ a[2] >= b[4])

\* The boxes of the claims, read off the configuration: box 2e-1 is the label
\* box of entry e, box 2e its entry box.
BoxEntry(k) == (k + 1) \div 2
BoxBounds(k) ==
    IF k % 2 = 1 THEN field_entries[BoxEntry(k)].label_bounds
    ELSE field_entries[BoxEntry(k)].entry_bounds
OverlapMessagesAt(a, b) ==
    {m \in 1..Len(messages) :
        messages[m].kind \in {"overlap", "overlap_self"} /\ messages[m].at = <<a, b>>}

\* C4: in a run that does not reach the cap, every unordered pair of boxes
\* (label and entry boxes of all entries, the two boxes of one entry included)
\* yields exactly one overlap diagnostic if the boxes are on the same page and
\* overlap, and none otherwise; boxes on different pages are never reported.
C4_PairsReportedOnce ==
    (LayoutDone /\ ~CapHit) =>
        \A a \in 1..(2 * Len(field_entries)) : \A b \in 1..(2 * Len(field_entries)) :
            /\ a < b =>
                 Cardinality(OverlapMessagesAt(a, b)) =
                    IF /\ field_entries[BoxEntry(a)].page_num
                              = field_entries[BoxEntry(b)].page_num
                       /\ StrictlyIntersect(BoxBounds(a), BoxBounds(b))
                    THEN 1 ELSE 0
            /\ a >= b => OverlapMessagesAt(a, b) = {}
            /\ field_entries[BoxEntry(a)].page_num # field_entries[BoxEntry(b)].page_num
                 => OverlapMessagesAt(a, b) = {}

\* C4 witness: a finished, uncapped run over two entries on different pages
\* whose label boxes have the same coordinates, one of which overlaps its own
\* entry box.
C4_Witness ==
    /\ LayoutDone /\ ~CapHit
    /\ field_entries = <<EntryTouching, EntryShort>>
    /\ Cardinality(OverlapMessagesAt(3, 4)) = 1
    /\ OverlapMessagesAt(1, 3) = {}

\* C5: the result contains the success message exactly when it contains no
\* failure diagnostic; without failures it is the count line followed by one
\* success message; no result has both, and none has neither.
C5_SuccessIffNoFailure ==
    LayoutDone =>
        /\ (CountKind({"success"}) >= 1) <=> (CountKind(FailureKinds) = 0)
        /\ CountKind(FailureKinds) = 0 =>
               messages = <<[kind |-> "read", count |-> Len(field_entries)], MsgSuccess>>
        /\ CountKind({"success"}) <= 1

\* C5 witness: a finished run with a height diagnostic and no success message.
C5_Witness ==
    /\ LayoutDone
    /\ field_entries = <<EntryDefault13>>
    /\ CountKind({"height"}) = 1 /\ CountKind({"success"}) = 0

\* C6: the diagnostics are capped at 20 entries: once the list holds 20
\* entries one truncation notice is appended and the function returns with no
\* further pair or height check; a result has at most 21 entries, at most one
\* truncation notice, which is last; 25 mutually overlapping fields give fewer
\* than 30 entries with exactly one truncation notice.
C6_DiagnosticCap ==
    /\ Len(messages) <= DiagnosticCap + 1
    /\ layout_pc = "loop" => Len(messages) < DiagnosticCap
    /\ CountKind({"abort"}) <= 1
    /\ CapHit => (LayoutDone /\ messages[Len(messages)] = MsgAbort)
    /\ (LayoutDone /\ Len(messages) >= DiagnosticCap) => CapHit
    /\ (LayoutDone /\ field_entries = ManyOverlapping) =>
           (Len(messages) < 30 /\ CountKind({"abort"}) = 1)

\* C6 witness: the run over the 25 overlapping fields has returned 21 entries,
\* the last of them the truncation notice, having stopped in the first row of
\* pairs.
C6_Witness ==
    /\ LayoutDone /\ field_entries = ManyOverlapping
    /\ Len(messages) = 21 /\ messages[21] = MsgAbort
    /\ i = 1 /\ j = 20

HeightMessagesOf(e) ==
    {m \in 1..Len(messages) : messages[m].kind = "height" /\ messages[m].at = <<2 * e>>}

\* C7: in a run that does not reach the cap, an entry with text_content gets a
\* height diagnostic iff entry_bounds[3] - entry_bounds[1] < text_size (14 when
\* text_content gives none); equality passes (height 10, size 10: none; height
\* 9, size 10: one); an entry without text_content never gets one.
C7_HeightCheck ==
    (LayoutDone /\ ~CapHit) =>
        /\ \A e \in 1..Len(field_entries) :
            LET entry == field_entries[e]
                height == entry.entry_bounds[4] - entry.entry_bounds[2]
            IN  IF "text_content" \in DOMAIN entry
                THEN LET text_size ==
                             IF "text_size" \in DOMAIN entry.text_content
                             THEN entry.text_content.text_size ELSE 14
                     IN  /\ (HeightMessagesOf(e) # {}) <=> (height < text_size)
                         /\ Cardinality(HeightMessagesOf(e)) <= 1
                ELSE HeightMessagesOf(e) = {}
        /\ \A m \in 1..Len(messages) :
               messages[m].kind = "height" =>
                   \E e \in 1..Len(field_entries) : messages[m].at = <<2 * e>>
        /\ \A e \in 1..Len(field_entries) :
               /\ field_entries[e] = EntryTouching => HeightMessagesOf(e) = {}
               /\ field_entries[e] = EntryShort => HeightMessagesOf(e) # {}

\* C7 witness: height 10 with text_size 10 passed and height 9 with text_size
\* 10 failed in one finished, uncapped run.
C7_Witness ==
    /\ LayoutDone /\ ~CapHit
    /\ field_entries = <<EntryTouching, EntryShort, EntryDefault13, EntryDefault14>>
    /\ HeightMessagesOf(1) = {} /\ HeightMessagesOf(2) # {}
    /\ HeightMessagesOf(3) # {} /\ HeightMessagesOf(4) = {}

(***************************************************************************)
(* Claims about populate_form_fields (checked under SpecFill)              *)
(***************************************************************************)
\* The instruction fails one of the three tests of the claim, read against the
\* extracted model itself.
InstructionBad(entry) ==
    LET known == {k \in 1..Len(elements) : elements[k].element_id = entry.element_id}
    IN  \/ known = {}
        \/ \E k \in known :
              \/ elements[k].page_num # entry.page_num
              \/ /\ "fill_value" \in DOMAIN entry
                 /\ HasTypeAttributes(elements[k])
                 /\ elements[k].element_type \in {"toggle_box", "option_group", "dropdown"}
                 /\ entry.fill_value \notin ValidDomain(elements[k])

AnyInstructionBad == \E k \in 1..Len(form_data) : InstructionBad(form_data[k])
FillEnded == fill_pc \in {"done", "exit1", "raised"}

\* C1: populate_form_fields is all-or-nothing: if any instruction names an
\* unknown element_id, a page_num other than the model's, or a fill_value that
\* validate_element_value rejects, the run exits with failure before the
\* writer is created, no field value is changed and no output is written; the
\* output is written only when every instruction passed.
C1_AllOrNothing ==
    /\ AnyInstructionBad =>
           /\ ~writer.created /\ ~output.written
           /\ fill_pc \notin {"update", "done"}
           /\ FillEnded => fill_pc \in {"exit1", "raised"}
    /\ output.written => \A k \in 1..Len(form_data) : ~InstructionBad(form_data[k])
    /\ fill_pc = "exit1" => (~writer.created /\ ~output.written)

\* C1 witness: a batch whose first instruction is valid and carries a value and
\* whose second is rejected has ended in exit(1) with nothing written.
C1_Witness ==
    /\ fill_pc = "exit1"
    /\ form_data = <<Instr("t", 1, "a"), Instr("d", 2, "c")>>
    /\ Len(elements) > 0
    /\ Len(data_by_page) = 2
    /\ ~writer.created /\ ~output.written

(***************************************************************************)
(* Claims about apply_text_overlays (checked under SpecOverlay)            *)
(***************************************************************************)
\* The wide-glyph ranges as the claim lists them: U+3000-303F, U+3040-309F,
\* U+30A0-30FF, U+3400-4DBF, U+4E00-9FFF, U+AC00-D7AF, U+FF00-FFEF.
WideGlyph(code) ==
    \/ code \in 12288..12351
    \/ code \in 12352..12447
    \/ code \in 12448..12543
    \/ code \in 13312..19903
    \/ code \in 19968..40959
    \/ code \in 44032..55215
    \/ code \in 65280..65519

ContentString(e) ==
    IF "text_content" \in DOMAIN e /\ "content" \in DOMAIN e.text_content
    THEN e.text_content.content ELSE << >>

NeedsWideGlyphs ==
    \E k \in 1..Len(overlay_entries) :
        \E c \in 1..Len(ContentString(overlay_entries[k])) :
            WideGlyph(ContentString(overlay_entries[k])[c])

NonEmptyEntries == {k \in 1..Len(overlay_entries) : ContentString(overlay_entries[k]) # << >>}

\* Where entry k was drawn in the merged overlays m: (overlay, position) pairs
\* on the entry's own page.
DrawsOf(m, k) ==
    {p \in (1..Len(m)) \X (1..Len(overlay_entries)) :
        /\ p[2] <= Len(m[p[1]].drawn)
        /\ m[p[1]].drawn[p[2]].entry = k
        /\ m[p[1]].page_num = overlay_entries[k].page_num}

AnnotationsOf(a, k) ==
    {n \in 1..Len(a) : a[n].entry = k /\ a[n].page_num = overlay_entries[k].page_num}

OverlayScanned == overlay_pc \notin {"idle", "start"}
EmbeddedPath == {"register", "group", "page", "draw", "exit1"}

\* C9: the rendering strategy is chosen once for the whole document: if any
\* content string holds a code point of the wide-glyph ranges, every non-empty
\* entry on every page is rendered by the embedded-glyph strategy and no
\* free-text annotation is attached; if none does, every non-empty entry is a
\* free-text annotation and the embedded-glyph path is never taken; no run
\* mixes the two.
C9_OneStrategy ==
    /\ OverlayScanned => has_cjk = NeedsWideGlyphs
    /\ (OverlayScanned /\ NeedsWideGlyphs) =>
           (annotations = << >> /\ overlay_pc # "annotate")
    /\ (OverlayScanned /\ ~NeedsWideGlyphs) =>
           /\ merged = << >> /\ canvas = << >> /\ scratch = {} /\ fonts = << >>
           /\ overlay_pc \notin EmbeddedPath
    /\ ~(annotations # << >> /\ (merged # << >> \/ canvas # << >>))
    /\ overlay_pc = "done" =>
           /\ overlay_output.written
           /\ \A k \in NonEmptyEntries :
                 IF NeedsWideGlyphs
                 THEN /\ Cardinality(DrawsOf(overlay_output.merged, k)) = 1
                      /\ AnnotationsOf(overlay_output.annotations, k) = {}
                 ELSE /\ Cardinality(AnnotationsOf(overlay_output.annotations, k)) = 1
                      /\ DrawsOf(overlay_output.merged, k) = {}
           /\ NeedsWideGlyphs => overlay_output.annotations = << >>
           /\ ~NeedsWideGlyphs => overlay_output.merged = << >>

\* C9 witness: a finished run over an ASCII entry on page 1 and an entry with
\* U+4E2D on page 2: both were drawn with embedded glyphs, none annotated.
C9_Witness ==
    /\ overlay_pc = "done"
    /\ overlay_entries = <<OverlayAscii, OverlayCjk>>
    /\ Len(overlay_output.merged) = 2
    /\ overlay_output.annotations = << >>
    /\ Cardinality(DrawsOf(overlay_output.merged, 1)) = 1

\* The entries the chosen strategy processes: all of them in the annotation
\* loop, the non-empty ones in the embedded-glyph loop.
ProcessedEntries ==
    IF NeedsWideGlyphs THEN NonEmptyEntries ELSE 1..Len(overlay_entries)

\* The page sizes needed to process entry k are missing or unusable.
LacksDimensions(k) ==
    LET page == overlay_entries[k].page_num
        known == {d \in 1..Len(page_dimensions) : page_dimensions[d].page_num = page}
    IN  \/ known = {}
        \/ page \notin 1..pdf_pages
        \/ \E d \in known :
              /\ \A m \in known : d <= m
              /\ (page_dimensions[d].img_width = 0 \/ page_dimensions[d].img_height = 0)

\* C10: apply_text_overlays never leaves a partial output: the output is
\* written only as the last step, after every entry of every page has been
\* processed; if wide glyphs are needed and no font is available, or the
\* processing of any entry fails, the run ends in failure and no output file
\* has been written.
C10_NoPartialOutput ==
    /\ overlay_output.written =>
           /\ overlay_pc = "done"
           /\ overlay_error = ""
           /\ \A k \in NonEmptyEntries :
                 \/ DrawsOf(overlay_output.merged, k) # {}
                 \/ AnnotationsOf(overlay_output.annotations, k) # {}
           /\ \A k \in ProcessedEntries : ~LacksDimensions(k)
    /\ overlay_pc \in {"exit1", "raised"} =>
           (~overlay_output.written /\ overlay_error # "")
    /\ (NeedsWideGlyphs /\ fonts # << >> /\ \A f \in 1..Len(fonts) : fonts[f] # "ok") =>
           (overlay_pc = "exit1" /\ ~overlay_output.written)
    /\ (\E k \in ProcessedEntries : LacksDimensions(k)) =>
           (~overlay_output.written /\ overlay_pc # "done")
    /\ overlay_error # "" => overlay_pc \in {"exit1", "raised"}

\* C10 witness: the first page's overlay was merged, the second page's
\* rendering failed, and the run ended in failure with no output written.
C10_Witness ==
    /\ overlay_pc = "raised" /\ overlay_error = "fault"
    /\ Len(merged) = 1 /\ overlay_idx = 2
    /\ ~overlay_output.written

\* A font of the list that exists and registers.
Capable(f) == fonts[f] = "ok"

FontProbed == fonts # << >>

\* C11: when wide glyphs are needed the font probe selects the first font of
\* the prioritized list that is capable of rendering (present and registrable),
\* and the run aborts with the missing-font error only if no font of the list
\* is capable; an earlier font that exists but cannot be registered does not
\* keep a later capable font from being used.
C11_FirstCapableFont ==
    FontProbed =>
        /\ (\E f \in 1..Len(fonts) : Capable(f)) =>
               LET first == CHOOSE f \in 1..Len(fonts) :
                                Capable(f) /\ \A g \in 1..(f - 1) : ~Capable(g)
               IN  cjk_font_name = CJK_FONT_NAMES[first]
        /\ (overlay_pc = "exit1" /\ overlay_error = "no CJK font") =>
               \A f \in 1..Len(fonts) : ~Capable(f)

\* The run is past the page loop or has left it through an exception.
OverlayEnded == overlay_pc \in {"done", "exit1", "raised"}

\* C12: in the embedded-glyph strategy every scratch file created for a page
\* is deleted before the run leaves that page's processing, on every exit path
\* (after the merge, and when drawing, saving, re-reading or merging raises);
\* only the page being rendered has a scratch file, and at the end of a run,
\* successful or failed, no scratch file exists.
C12_ScratchRemoved ==
    /\ overlay_pc # "draw" => scratch = {}
    /\ overlay_pc = "draw" => scratch = {overlay_idx}
    /\ OverlayEnded => scratch = {}

\* C12 witness: the second page's scratch file was created, drawing on it
\* raised after the first page had been merged, and no scratch file is left.
C12_Witness ==
    /\ overlay_pc = "raised" /\ overlay_error = "ZeroDivisionError"
    /\ has_cjk /\ cjk_font_name # ""
    /\ Len(merged) = 1 /\ overlay_idx = 2
    /\ scratch = {}

(***************************************************************************)
(* Claims about parse_form_elements (checked under SpecParse)              *)
(***************************************************************************)
ParseDone == parse_pc = "done"

Published == 1..Len(sorted_elements)

IsGroup(e) == e.element_type = "option_group"

\* C13: the list returned by parse_form_elements has pairwise distinct
\* element_id values: no two published elements, leaf elements and option
\* groups together, share an element_id.
C13_UniqueIds ==
    ParseDone =>
        \A a, b \in Published :
            a # b => sorted_elements[a].element_id # sorted_elements[b].element_id

\* C13 witness: two annotations have added their options to the same group
\* and the group has been published once.
C13_Witness ==
    /\ ParseDone /\ Len(sorted_elements) = 1
    /\ IsGroup(sorted_elements[1])
    /\ Len(sorted_elements[1].available_options) = 2

\* The rectangle an element is placed by: its own, or its first option's; a
\* missing rectangle counts as [0, 0, 0, 0].
PlacingRect(e) ==
    LET rect == IF IsGroup(e) THEN e.available_options[1].bounds
                ELSE IF "bounds" \in DOMAIN e THEN e.bounds ELSE << >>
    IN  IF rect = << >> THEN <<0, 0, 0, 0>> ELSE rect

\* The position key: page ascending, vertical position (the rectangle's second
\* coordinate) descending, horizontal position (its first) ascending.
PositionKey(e) == <<e.page_num, -PlacingRect(e)[2], PlacingRect(e)[1]>>

KeyBefore(a, b) ==
    \/ a[1] < b[1]
    \/ a[1] = b[1] /\ a[2] < b[2]
    \/ a[1] = b[1] /\ a[2] = b[2] /\ a[3] < b[3]

\* The list the sort is applied to: the located leaf elements in the order of
\* the fields, then the option groups in the order of their first option.
BeforeSort == SelectSeq(parse_elements_by_id, HasPageNum) \o option_groups_by_id

PlaceBeforeSort(e) == CHOOSE k \in 1..Len(BeforeSort) : BeforeSort[k] = e

\* C14 as stated: the returned list is ordered by (page_num ascending, vertical
\* position descending, horizontal position ascending) and the order is
\* strict: no two distinct published elements have the same key.
C14_StrictOrder ==
    ParseDone =>
        \A a, b \in Published :
            a < b => KeyBefore(PositionKey(sorted_elements[a]),
                               PositionKey(sorted_elements[b]))

\* C14 amended: the returned list holds the located leaf elements and the
\* option groups, in non-decreasing order of the key (page_num, -y, x) taken
\* from the first two coordinates of the rectangle; elements with equal keys
\* keep the order they had before the sort.
C14_StableOrder ==
    ParseDone =>
        /\ Len(sorted_elements) = Len(BeforeSort)
        /\ \A k \in 1..Len(BeforeSort) : BeforeSort[k] \in SeqToSet(sorted_elements)
        /\ \A a, b \in Published :
               a < b =>
                   /\ ~KeyBefore(PositionKey(sorted_elements[b]),
                                 PositionKey(sorted_elements[a]))
                   /\ PositionKey(sorted_elements[a]) = PositionKey(sorted_elements[b])
                          => PlaceBeforeSort(sorted_elements[a])
                                 < PlaceBeforeSort(sorted_elements[b])

\* C14 witness: two elements with the same key have been published, in the
\* order of their fields ("d" is declared before "t").
C14_Witness ==
    /\ ParseDone /\ Len(sorted_elements) = 2
    /\ sorted_elements[1].element_id = "d" /\ sorted_elements[2].element_id = "t"
    /\ PositionKey(sorted_elements[1]) = PositionKey(sorted_elements[2])

\* The leaf element has a rectangle; the group has one in each option.
HasResolvedBounds(e) ==
    IF IsGroup(e)
    THEN \A k \in 1..Len(e.available_options) : e.available_options[k].bounds # << >>
    ELSE "bounds" \in DOMAIN e /\ e.bounds # << >>

\* C15: an element is published only if it received page and bounds from a
\* page annotation: a declared leaf field matched by no annotation is left
\* out with a warning, and every published element has a page_num and a
\* non-null bounds rectangle (an option group in each recorded option).
C15_LocatedOnly ==
    ParseDone =>
        /\ \A k \in 1..Len(parse_elements_by_id) :
               LacksPageNum(parse_elements_by_id[k]) =>
                   /\ \A a \in Published :
                          sorted_elements[a].element_id
                              # parse_elements_by_id[k].element_id
                   /\ WarnExcluded(parse_elements_by_id[k].element_id)
                          \in SeqToSet(warnings)
        /\ \A a \in Published :
               /\ "page_num" \in DOMAIN sorted_elements[a]
               /\ HasResolvedBounds(sorted_elements[a])

\* The field lookup of the document yielded nothing.
NoFields == fields = None \/ fields = Dict(<< >>)

\* C16: extracting the form model from a document that declares no fields is
\* a valid result: parse_form_elements raises no error and returns the empty
\* list.
C16_NoFieldsIsValid ==
    NoFields =>
        /\ parse_pc # "raised" /\ parse_error = ""
        /\ ParseDone => sorted_elements = << >>

\* The attributes that belong to one element type each.
TypeAttributes == {"on_value", "off_value", "available_options", "menu_items"}

\* The attributes the element_type requires.
RequiredAttributes(e) ==
    IF e.element_type = "toggle_box" THEN {"on_value", "off_value"}
    ELSE IF e.element_type = "option_group" THEN {"available_options"}
    ELSE IF e.element_type = "dropdown" THEN {"menu_items"}
    ELSE {}

\* The values validate_element_value may be asked about for an element.
ProbeValues == {"/Off", "/Yes", "a", "text"}

\* C17: every published element has the type-specific attributes of its
\* element_type and only those (a toggle_box on_value and off_value, an
\* option_group its options, a dropdown its menu items, a text_input none),
\* so validate_element_value never fails on a missing attribute.
C17_TypeAttributes ==
    ParseDone =>
        \A a \in Published :
            /\ DOMAIN sorted_elements[a] \cap TypeAttributes
                   = RequiredAttributes(sorted_elements[a])
            /\ \A v \in ProbeValues :
                   validate_element_value(sorted_elements[a], v).tag # "KeyError"

\* The fields the loop over fields.items() has gone through.
ClassifiedFields ==
    IF fields = None THEN {}
    ELSE {k \in 1..Len(fields.items) : k < field_idx}

\* The leaf element built for a field id.
LeafOf(id) ==
    parse_elements_by_id[CHOOSE k \in 1..Len(parse_elements_by_id) :
                             parse_elements_by_id[k].element_id = id]

\* A button leaf field that declares exactly two states.
TwoStateButton(field) ==
    /\ "Kids" \notin DOMAIN field
    /\ "FT" \in DOMAIN field /\ field.FT = "/Btn"
    /\ "States" \in DOMAIN field /\ Len(field.States) = 2

\* C18: for a button leaf field with exactly two states, if one of them is
\* "/Off" (at either position) off_value is "/Off" and on_value the other
\* state; if neither is, on_value is the first state and off_value the
\* second and a warning is printed; the extraction does not fail.
C18_ToggleResolution ==
    \A k \in ClassifiedFields :
        TwoStateButton(fields.items[k].field) =>
            LET id == fields.items[k].id
                states == fields.items[k].field.States
                e == LeafOf(id)
            IN  /\ parse_pc # "raised"
                /\ e.element_type = "toggle_box"
                /\ states[1] = "/Off" => (e.off_value = "/Off" /\ e.on_value = states[2])
                /\ states[2] = "/Off" => (e.off_value = "/Off" /\ e.on_value = states[1])
                /\ (states[1] # "/Off" /\ states[2] # "/Off") =>
                       /\ e.on_value = states[1] /\ e.off_value = states[2]
                       /\ WarnPositional(id) \in SeqToSet(warnings)
                /\ (states[1] = "/Off" \/ states[2] = "/Off") =>
                       WarnPositional(id) \notin SeqToSet(warnings)

\* C18 witness: the toggle whose "/Off" comes first and the toggle without
\* "/Off" have both been built, the second with its warning.
C18_Witness ==
    /\ parse_pc = "annots"
    /\ \E k \in 1..Len(parse_elements_by_id) :
           /\ parse_elements_by_id[k].element_id = "o"
           /\ parse_elements_by_id[k].on_value = "/On"
           /\ parse_elements_by_id[k].off_value = "/Off"
    /\ \E k \in 1..Len(parse_elements_by_id) :
           /\ parse_elements_by_id[k].element_id = "p"
           /\ parse_elements_by_id[k].on_value = "/1"
           /\ parse_elements_by_id[k].off_value = "/2"
    /\ warnings = <<WarnPositional("p")>>

\* The annotations the page loop has gone through, in traversal order.
RECURSIVE TraversalFrom(_)
TraversalFrom(p) ==
    IF p > Len(pages) THEN << >>
    ELSE [a \in 1..Len(pages[p]) |-> [page_num |-> p, at |-> a, ann |-> pages[p][a]]]
             \o TraversalFrom(p + 1)

Processed(x) == x.page_num < page_idx + 1 \/ (x.page_num = page_idx + 1 /\ x.at < ann_idx)

ProcessedAnnotations == SelectSeq(TraversalFrom(1), Processed)

\* The non-off states of the annotation's normal appearance; none when the
\* annotation has no appearance states.
NonOffStates(ann) ==
    IF "AP" \in DOMAIN ann /\ "N" \in DOMAIN ann.AP
    THEN {k \in 1..Len(ann.AP.N) : ann.AP.N[k] # "/Off"}
    ELSE {}

\* The processed annotations that add an option to the group g.
OptionsFor(g) ==
    LET Adds(x) == /\ build_complete_element_id(x.ann) = Str(g)
                   /\ Cardinality(NonOffStates(x.ann)) = 1
    IN  SelectSeq(ProcessedAnnotations, Adds)

\* The ids of the button fields that have children.
ButtonsWithChildren ==
    {fields.items[k].id : k \in {m \in 1..Len(fields.items) :
        LET field == fields.items[m].field
        IN  /\ "Kids" \in DOMAIN field /\ field.Kids # << >>
            /\ "FT" \in DOMAIN field /\ field.FT = "/Btn"}}

GroupsOf(g) == {k \in 1..Len(option_groups_by_id) : option_groups_by_id[k].element_id = g}

\* C19: an annotation whose qualified id is that of a button field with
\* children adds exactly one option (its single non-off state, its rectangle)
\* iff it has exactly one non-off appearance state; options are kept in
\* page-then-annotation order, the group's page_num is the page of its first
\* option, and a container without options is not published.
C19_OptionRecording ==
    /\ parse_pc \in {"annots", "resolve", "publish", "done"} =>
           potential_option_groups = ButtonsWithChildren
    /\ \A g \in potential_option_groups :
           LET adds == OptionsFor(g)
           IN  IF adds = << >> THEN GroupsOf(g) = {}
               ELSE /\ Cardinality(GroupsOf(g)) = 1
                    /\ \A k \in GroupsOf(g) :
                           /\ option_groups_by_id[k].page_num = adds[1].page_num
                           /\ Len(option_groups_by_id[k].available_options) = Len(adds)
                           /\ \A m \in 1..Len(adds) :
                                  LET n == adds[m].ann.AP.N
                                      option == option_groups_by_id[k].available_options[m]
                                  IN  /\ option.option_value
                                             = n[CHOOSE s \in NonOffStates(adds[m].ann) : TRUE]
                                      /\ option.bounds = Get(adds[m].ann, "Rect", << >>)
    /\ \A k \in 1..Len(option_groups_by_id) :
           option_groups_by_id[k].element_id \in potential_option_groups
    /\ ParseDone =>
           \A a \in Published :
               IsGroup(sorted_elements[a]) =>
                   sorted_elements[a] \in SeqToSet(option_groups_by_id)

\* C19 witness: the group "g" has been published with the option of page 1
\* followed by the option of page 2, on page 1.
C19_Witness ==
    /\ ParseDone
    /\ pages = <<<<AnnRadioA>>, <<AnnRadioB>>>>
    /\ \E a \in Published :
           /\ sorted_elements[a].element_id = "g"
           /\ sorted_elements[a].page_num = 1
           /\ sorted_elements[a].available_options
                  = <<[option_value |-> "/a", bounds |-> <<50, 700, 60, 710>>],
                      [option_value |-> "/b", bounds |-> <<70, 640, 80, 650>>]>>

\* The names of the parent chain joined from the root down to the node, ""
\* when the chain carries no name.
RECURSIVE QualifiedName(_)
QualifiedName(dict) ==
    IF dict = None \/ DOMAIN dict = {} THEN ""
    ELSE LET above == IF "Parent" \in DOMAIN dict THEN QualifiedName(dict.Parent) ELSE ""
             name == IF "T" \in DOMAIN dict THEN dict.T ELSE ""
         IN  IF name = "" THEN above
             ELSE IF above = "" THEN name
             ELSE above \o "." \o name

\* build_complete_element_id is about to return for the current annotation.
Resolved == parse_pc = "resolve" /\ ~DictTruthy(node)

CurrentAnnotation == pages[page_idx + 1][ann_idx]

\* The id returned is the chain's names joined root first, None for no name.
ResolvesToQualifiedName ==
    Resolved =>
        ReturnedId(parts) = IF QualifiedName(CurrentAnnotation) = "" THEN None
                            ELSE Str(QualifiedName(CurrentAnnotation))

\* An annotation that resolves to no id changes neither a leaf element nor
\* an option group.
NamelessMatchesNothing ==
    (Resolved /\ QualifiedName(CurrentAnnotation) = "" /\ parse_pc' = "annots") =>
        UNCHANGED <<parse_elements_by_id, option_groups_by_id>>

\* The number of dictionaries the while loop has still to visit.
RECURSIVE ChainLength(_)
ChainLength(dict) ==
    IF DictTruthy(dict) THEN 1 + ChainLength(Get(dict, "Parent", None)) ELSE 0

\* Every iteration of the loop moves one dictionary up the chain.
ResolutionAdvances ==
    (parse_pc = "resolve" /\ parse_pc' = "resolve") =>
        ChainLength(node') < ChainLength(node)

\* C20: build_complete_element_id follows the parent chain to the root and
\* joins the names found, root first, with "."; nodes without a name are
\* skipped; an annotation whose chain has no name resolves to no id and
\* matches neither a leaf element nor an option group; on every finite
\* parent chain the resolution terminates.
C20_QualifiedId ==
    /\ []ResolvesToQualifiedName
    /\ [][NamelessMatchesNothing]_vars
    /\ [][ResolutionAdvances]_vars
    /\ (parse_pc = "resolve") ~> (parse_pc = "annots")

\* C20 witness: the annotation "n" under "f" has been resolved to "f.n".
C20_Witness ==
    /\ Resolved
    /\ CurrentAnnotation = AnnNested
    /\ ReturnedId(parts) = Str("f.n")

(***************************************************************************)
(* Claims about convert_image_to_pdf_coords in float arithmetic (checked   *)
(* under SpecPure)                                                         *)
(***************************************************************************)
ConvertedBinary64 == call.fn = "convert_image_to_pdf_coords_binary64" /\ ret # Pending

\* |a| < |b| for two floats.
MagLess(a, b) ==
    IF b.m = << >> THEN FALSE
    ELSE IF a.m = << >> THEN TRUE
    ELSE a.e < b.e \/ (a.e = b.e /\ BitsLess(a.m, b.m))

\* a <= b for two floats.
FlLe(a, b) ==
    \/ a = b
    \/ a.neg /\ ~b.neg
    \/ ~a.neg /\ ~b.neg /\ MagLess(a, b)
    \/ a.neg /\ b.neg /\ MagLess(b, a)

\* The gap between float(k) and the next float above it.
Ulp(k) ==
    [neg |-> FALSE, m |-> <<1>> \o Zeros(MantissaBits - 1),
     e |-> FlOfInt(k).e - (MantissaBits - 1)]

WellFormedBox == call.bbox[1] <= call.bbox[3] /\ call.bbox[2] <= call.bbox[4]
FullImageBox == call.bbox = <<0, 0, call.img_width, call.img_height>>

\* left <= right and bottom_pdf <= top_pdf in the returned tuple.
OrientationKept ==
    /\ ret.tag = "return"
    /\ FlLe(ret.value[1], ret.value[3])
    /\ FlLe(ret.value[2], ret.value[4])

\* C21 as stated: a well-formed box maps to a tuple with left <= right and
\* bottom_pdf <= top_pdf, and the full image box [0, 0, image_w, image_h]
\* maps to exactly (0, 0, page_w, page_h).
C21_FullBoxExact ==
    ConvertedBinary64 =>
        /\ WellFormedBox => OrientationKept
        /\ FullImageBox =>
               ret.value = <<FlOfInt(0), FlOfInt(0), FlOfInt(call.pdf_width),
                             FlOfInt(call.pdf_height)>>

\* C21, amended: a well-formed box maps to a tuple with left <= right and
\* bottom_pdf <= top_pdf; the full image box maps to left = 0 and top_pdf =
\* page_h exactly, to a right within one float step of page_w and to a
\* bottom_pdf within one float step (of page_h) of 0.
C21_OrientationKept ==
    ConvertedBinary64 =>
        /\ WellFormedBox => OrientationKept
        /\ FullImageBox =>
               /\ ret.value[1] = FlOfInt(0)
               /\ ret.value[4] = FlOfInt(call.pdf_height)
               /\ ~MagLess(Ulp(call.pdf_width), FlSub(call.pdf_width, ret.value[3]))
               /\ ~MagLess(Ulp(call.pdf_height), ret.value[2])

\* C21 witness: the full box of a 35 x 37 image on a 612 x 792 page has been
\* mapped: right is the float just below 612 and bottom_pdf is just below 0,
\* and the tuple is still ordered.
C21_Witness ==
    /\ ConvertedBinary64 /\ FullImageBox /\ OrientationKept
    /\ call.img_width = 35 /\ call.img_height = 37
    /\ call.pdf_width = 612 /\ call.pdf_height = 792
    /\ ret.value[3] # FlOfInt(612) /\ FlLe(ret.value[3], FlOfInt(612))
    /\ ret.value[2].neg

====
